---- MODULE Spec2Model ----
(***************************************************************************)
(* The supervisor core of RoverTeam-SPOT (src/supervisor): the registry of *)
(* Subsystem records, ProcessManager (start_all, start, stop, kill,        *)
(* _terminate), Monitor (run, _check_subsystem, _schedule_restart) and the *)
(* lifecycle commands of CommandHandler (stop, start, restart), as tasks   *)
(* of one cooperative event loop.  A step of the model is what one task    *)
(* does between two suspension points (await) of the code.                 *)
(***************************************************************************)
EXTENDS Integers, Sequences, FiniteSets, TLC

(* ------------------------------ bounds -------------------------------- *)
\* Child processes the operating system accepts beyond one per subsystem; a
\* spawn past that number is refused (create_subprocess_exec raises).
MaxExtraChildren == 1
\* Graceful stops (operator stop / restart) that may be suspended at once.
MaxStops == 1
\* The monotonic clock stops advancing here.
MaxClock == 40
\* Granularity of the clock: loop.time() advances in steps of TimeUnit.
TimeUnit == 10

(* ------------------------- program constants -------------------------- *)
HEARTBEAT_TIMEOUT == 20

(* ------------------------------ registry ------------------------------ *)
None == 0

VARIABLES
    registry,               \* Supervisor.subsystems: the names, in insertion order
    process,                \* Subsystem.process: a child handle, or None
    last_heartbeat,         \* Subsystem.last_heartbeat
    restart_pending,        \* Subsystem.restart_pending
    intentionally_stopped,  \* Subsystem.intentionally_stopped
    child,                  \* every child process: its state, its subsystem, its spawner
    clock,                  \* loop.time()
    tier,                   \* start_all: the tier being launched, 4 once it returned
    tier_start,             \* start_all: the gathered start(sub) call of each subsystem
    monitor,                \* Monitor.run: where it is suspended
    restart_tasks,          \* the _restart tasks sleeping out RESTART_DELAY, per subsystem
    stop_tasks,             \* operator stop / restart commands suspended in _terminate
    restart_all_confirmation, \* CommandHandler._restart_all_confirmation
    shutdown,               \* Supervisor.shutdown: "idle", "stop_all" (_stopping set), "done"
    crashed,                \* the stream readers that ended with an exception: <<child, stream>>
    at_eof,                 \* the stream readers that returned at end-of-stream: <<child, stream>>
    loader,                 \* load_subsystems: the folders it scans, the records it returned, whether it has run
    output,                 \* history: what the last step wrote to the console and the bus
    command,                \* history: the token vector the last step handled as a command
    stop_handled,           \* history: `stop <name>` handled, no start/restart command since
    stopped_in_delay,       \* history: intentionally_stopped became true while the _restart task now sleeping slept
    event                   \* history: what the last step called

vars == <<registry, process, last_heartbeat, restart_pending, intentionally_stopped,
          child, clock, tier, tier_start, monitor, restart_tasks, stop_tasks,
          restart_all_confirmation, shutdown, crashed, at_eof, loader, output, command,
          stop_handled, stopped_in_delay, event>>

subsystems == {registry[i] : i \in 1..Len(registry)}

\* Subsystem.priority_rank, as each subsystem's config file gives it.
priority_rank(s) ==
    CASE s = "telemetry"    -> 0
      [] s = "cantelemetry" -> 9
      [] s = "drive"        -> 10
      [] s = "arm"          -> 99
      [] OTHER              -> 100

\* The tier start_all puts a subsystem in.
TierOf(s) ==
    IF 0 <= priority_rank(s) /\ priority_rank(s) <= 9 THEN 1
    ELSE IF 10 <= priority_rank(s) /\ priority_rank(s) <= 99 THEN 2
    ELSE 3

\* sorted(self.subsystems.values(), key=priority_rank): a stable sort.
RECURSIVE InsertSorted(_, _)
InsertSorted(seq, s) ==
    IF seq = << >> THEN <<s>>
    ELSE IF priority_rank(Head(seq)) <= priority_rank(s)
         THEN <<Head(seq)>> \o InsertSorted(Tail(seq), s)
         ELSE <<s>> \o seq

RECURSIVE SortByPriority(_)
SortByPriority(seq) ==
    IF seq = << >> THEN << >>
    ELSE InsertSorted(SortByPriority(SubSeq(seq, 1, Len(seq) - 1)), seq[Len(seq)])

ScanOrder == SortByPriority(registry)

\* Every name a subsystem folder has.
AllNames == {"telemetry", "cantelemetry", "drive", "science"}

Children == 1..(Len(registry) + MaxExtraChildren)

\* Every child there can be, whatever the registry.
AllChildren == 1..(Cardinality(AllNames) + MaxExtraChildren)

(* ------------------------------ children ------------------------------ *)
Unborn == [st |-> "unborn", sub |-> "-", by |-> "-"]

\* Process.returncode is None: the child has not been reaped yet.
Running(ch, c) == ch[c].st \in {"alive", "killed"}

\* `sub.process and sub.process.returncode is None`
HasLiveProcess(proc, ch, s) == proc[s] # None /\ Running(ch, proc[s])

FreeIds(ch) == {c \in Children : ch[c].st = "unborn"}

LowestFree(ch) == CHOOSE c \in FreeIds(ch) : \A d \in FreeIds(ch) : c <= d

\* A reaped child whose handle no record and no suspended call holds any more
\* is gone: the Process object is garbage.
Collect(ch, proc, mon, tasks) ==
    [c \in Children |->
        IF /\ ch[c].st = "exited"
           /\ \A s \in subsystems : proc[s] # c
           /\ mon.h # c
           /\ \A t \in tasks : t.h # c
        THEN Unborn ELSE ch[c]]

(* ------------------------------- loader ------------------------------- *)
\* A value of a parsed config: kind is "bool", "null", "int", "str" or "list";
\* b, n, s hold the value of a bool, an int, a str, items the elements of a
\* list.
Value(kind, b, n, s, items) == [kind |-> kind, b |-> b, n |-> n, s |-> s, items |-> items]

Bool(b) == Value("bool", b, 0, "", << >>)

Null == Value("null", FALSE, 0, "", << >>)

Number(n) == Value("int", FALSE, n, "", << >>)

String(s) == Value("str", FALSE, 0, s, << >>)

List(items) == Value("list", FALSE, 0, "", items)

\* str(value) of a scalar.
Str(v) ==
    CASE v.kind = "bool" -> IF v.b THEN "True" ELSE "False"
      [] v.kind = "null" -> "None"
      [] v.kind = "int"  -> ToString(v.n)
      [] OTHER           -> v.s

\* The inner for loop of flatten_args: key and str(item) for every item.
RECURSIVE flatten_items(_, _, _, _)
flatten_items(key, items, i, result) ==
    IF i > Len(items) THEN result
    ELSE flatten_items(key, items, i + 1, result \o <<key, Str(items[i])>>)

\* flatten_from with a slip: a bool is not told apart from the other scalars.
RECURSIVE flatten_from_no_bool(_, _, _)
flatten_from_no_bool(args, i, result) ==
    IF i > Len(args) THEN result
    ELSE LET key == args[i][1]
             value == args[i][2]
         IN  IF value.kind = "null" THEN flatten_from_no_bool(args, i + 1, result)
             ELSE IF value.kind = "list"
             THEN flatten_from_no_bool(args, i + 1, flatten_items(key, value.items, 1, result))
             ELSE flatten_from_no_bool(args, i + 1, result \o <<key, Str(value)>>)

\* The for loop of flatten_args from entry i of the mapping on; an entry is
\* the pair <<key, value>>, the entries come in the order of the mapping.
RECURSIVE flatten_from(_, _, _)
flatten_from(args, i, result) ==
    IF i > Len(args) THEN result
    ELSE LET key == args[i][1]
             value == args[i][2]
         IN  IF value.kind = "null" THEN flatten_from(args, i + 1, result)
             ELSE IF value.kind = "bool"
             THEN flatten_from(args, i + 1, IF value.b THEN Append(result, key) ELSE result)
             ELSE IF value.kind = "list"
             THEN flatten_from(args, i + 1, flatten_items(key, value.items, 1, result))
             ELSE flatten_from(args, i + 1, result \o <<key, Str(value)>>)

flatten_args(args) == flatten_from(args, 1, << >>)

\* What load_subsystems sees of one entry of the subprocesses directory: its
\* name, whether it is a directory, whether it holds process.py, whether its
\* config file is missing, unparseable, a JSON value that is no object
\* ("value") or an object ("ok"), and the name, priority and args keys of the
\* parsed object (each may be left out; priority may be something that is no
\* number, args something that is no mapping).
Folder(dir, is_dir, entry, config, has_name, name, has_priority, priority) ==
    [dir |-> dir, is_dir |-> is_dir, entry |-> entry, config |-> config,
     has_name |-> has_name, name |-> name,
     has_priority |-> has_priority, priority_is_number |-> TRUE, priority |-> priority,
     args_is_mapping |-> TRUE, args |-> << >>]

\* The keys of the dict load_subsystems builds, in insertion order.
NamesOf(subs) == [i \in 1..Len(subs) |-> subs[i].name]

\* LoadFrom with a slip: a later folder replaces the record of the same name.
RECURSIVE LoadFromLastWins(_, _, _)
LoadFromLastWins(folders, i, subs) ==
    IF i > Len(folders) THEN [subs |-> subs, raised |-> FALSE]
    ELSE LET f        == folders[i]
             name     == IF f.has_name THEN f.name ELSE f.dir
             priority == IF f.has_priority THEN f.priority ELSE 5
             sub      == [name |-> name, priority_rank |-> priority, path |-> f.dir,
                          extra_args |-> flatten_args(f.args)]
         IN  IF ~f.is_dir \/ ~f.entry \/ f.config \in {"missing", "unparseable"}
             THEN LoadFromLastWins(folders, i + 1, subs)
             ELSE IF f.config # "ok" \/ (f.has_priority /\ ~f.priority_is_number)
             THEN [subs |-> subs, raised |-> TRUE]
             ELSE IF priority < 0
             THEN LoadFromLastWins(folders, i + 1, subs)
             ELSE IF ~f.args_is_mapping
             THEN [subs |-> subs, raised |-> TRUE]
             ELSE IF \E k \in 1..Len(subs) : subs[k].name = name
             THEN LoadFromLastWins(folders, i + 1,
                      [k \in 1..Len(subs) |-> IF subs[k].name = name THEN sub ELSE subs[k]])
             ELSE LoadFromLastWins(folders, i + 1, Append(subs, sub))

\* The for loop of load_subsystems from folder i on; subs is the dict so far.
\* raised: an exception left the loop (cfg.get on a value that is no object,
\* `priority < 0` on a priority that is no number, args.items() on an args
\* that is no mapping), so load_subsystems returns nothing.
RECURSIVE LoadFrom(_, _, _)
LoadFrom(folders, i, subs) ==
    IF i > Len(folders) THEN [subs |-> subs, raised |-> FALSE]
    ELSE LET f        == folders[i]
             name     == IF f.has_name THEN f.name ELSE f.dir
             priority == IF f.has_priority THEN f.priority ELSE 5
             sub      == [name |-> name, priority_rank |-> priority, path |-> f.dir,
                          extra_args |-> flatten_args(f.args)]
         IN  IF ~f.is_dir \/ ~f.entry \/ f.config \in {"missing", "unparseable"}
             THEN LoadFrom(folders, i + 1, subs)
             ELSE IF f.config # "ok" \/ (f.has_priority /\ ~f.priority_is_number)
             THEN [subs |-> subs, raised |-> TRUE]
             ELSE IF priority < 0
             THEN LoadFrom(folders, i + 1, subs)
             ELSE IF ~f.args_is_mapping
             THEN [subs |-> subs, raised |-> TRUE]
             ELSE IF \E k \in 1..Len(subs) : subs[k].name = name
             THEN LoadFrom(folders, i + 1, subs)
             ELSE LoadFrom(folders, i + 1, Append(subs, sub))

\* load_subsystems on a directory listing.
LoadSubsystems(folders) == LoadFrom(folders, 1, << >>)

\* A directory whose folders give the registry reg.
FoldersFor(reg) ==
    [i \in 1..Len(reg) |->
        Folder(reg[i], TRUE, TRUE, "ok", TRUE, reg[i], TRUE, priority_rank(reg[i]))]

(* ------------------------------- output ------------------------------- *)
\* The two pipes of a child, each with its own _read_stream task.
Streams == {"stdout", "stderr"}

\* A step that writes nothing.  console: the lines written to the console by a
\* stream reader or by a reply (print or logger call); bus: the frames sent on
\* the publisher socket; dispatched: the token vectors for which a stream
\* reader created a command task.
NoOutput == [console |-> << >>, bus |-> << >>, dispatched |-> << >>]

\* The logger method the if / elif chains of _reply and _read_stream pick.
LogLevel(level) ==
    IF level \in {"DEBUG", "WARNING", "ERROR", "CRITICAL"} THEN level ELSE "INFO"

\* A line written to the console.
ConsoleLine(via, level, text) == [via |-> via, level |-> level, text |-> text]

\* CommandHandler._reply: the message goes to the logger at the given level
\* and to the bus as `TELEMETRY <level> [supervisor]: <message>`.  A text is
\* the sequence of its pieces, blanks included.
Reply(level, message) ==
    [console    |-> <<ConsoleLine("log", LogLevel(level), message)>>,
     bus        |-> << <<"TELEMETRY", " ", level, " ", "[supervisor]:", " ">> \o message >>,
     dispatched |-> << >>]

\* What the caller of ProcessManager.start writes once start has returned:
\* the start and restart commands reply, start_all and the restart tasks do not.
StartReply(by, s) ==
    IF by = "start" THEN Reply("WARNING", <<"Started", " ", s>>)
    ELSE IF by = "restart" THEN Reply("WARNING", <<"Restarted", " ", s>>)
    ELSE NoOutput

\* The history of a step: a subsystem whose _restart task sleeps on, and whose
\* intentionally_stopped went from false to true in the step, is marked until
\* that task wakes or is cancelled.
StoppedInDelayNext ==
    stopped_in_delay' =
        [s \in DOMAIN restart_tasks' |->
            IF restart_tasks'[s] = << >> THEN FALSE
            ELSE IF /\ restart_tasks[s] # << >>
                    /\ ~intentionally_stopped[s]
                    /\ intentionally_stopped'[s]
            THEN TRUE
            ELSE stopped_in_delay[s]]

\* The state after Supervisor.__init__ with the registry reg loaded.
InitWith(reg) ==
    /\ registry = reg
    /\ process = [s \in subsystems |-> None]
    /\ last_heartbeat = [s \in subsystems |-> 0]
    /\ restart_pending = [s \in subsystems |-> FALSE]
    /\ intentionally_stopped = [s \in subsystems |-> FALSE]
    /\ child = [c \in Children |-> Unborn]
    /\ clock = TimeUnit
    /\ tier = 1
    /\ tier_start = [s \in subsystems |-> "idle"]
    /\ monitor = [pc |-> "sleep", idx |-> 0, now |-> 0, h |-> None]
    /\ restart_tasks = [s \in subsystems |-> << >>]
    /\ stop_tasks = {}
    /\ restart_all_confirmation = FALSE
    /\ shutdown = "idle"
    /\ crashed = {}
    /\ at_eof = {}
    /\ loader = [folders |-> FoldersFor(reg),
                 loaded |-> LoadSubsystems(FoldersFor(reg)).subs,
                 done |-> TRUE, raised |-> FALSE]
    /\ output = NoOutput
    /\ command = << >>
    /\ stop_handled = [s \in subsystems |-> FALSE]
    /\ stopped_in_delay = [s \in subsystems |-> FALSE]
    /\ event = {}

\* A supervisor with one subsystem.
Init == InitWith(<<"drive">>)

\* A supervisor with the telemetry subsystem and one more.
InitOps == InitWith(<<"telemetry", "drive">>)

(* --------------------------- ProcessManager --------------------------- *)
\* StartCall with a slip: a live process does not make start return early.
StartCallNoCheck(s, by, ok, proc, ch) ==
    IF ok /\ FreeIds(ch) # {}
    THEN [process |-> proc,
          child   |-> [ch EXCEPT ![LowestFree(ch)] =
                          [st |-> "spawning", sub |-> s, by |-> by]],
          out     |-> "spawning"]
    ELSE [process |-> [proc EXCEPT ![s] = None], child |-> ch, out |-> "failed"]

\* ProcessManager.start(sub) up to its suspension in create_subprocess_exec.
\* `ok` is whether the operating system accepts the spawn.  out = "already":
\* a live process exists, nothing is done; "failed": the spawn raised and the
\* except branch cleared process; "spawning": the child is forked and the call
\* is suspended until the handle is returned (SpawnDone).
StartCall(s, by, ok, proc, ch) ==
    IF HasLiveProcess(proc, ch, s)
    THEN [process |-> proc, child |-> ch, out |-> "already"]
    ELSE IF ok /\ FreeIds(ch) # {}
    THEN [process |-> proc,
          child   |-> [ch EXCEPT ![LowestFree(ch)] =
                          [st |-> "spawning", sub |-> s, by |-> by]],
          out     |-> "spawning"]
    ELSE [process |-> [proc EXCEPT ![s] = None], child |-> ch, out |-> "failed"]

\* What a start call adds to the history of the step.
StartEvents(s, by, out) ==
    {<<"start", s, by>>} \cup (IF out = "failed" THEN {<<"spawn_fail", s, by>>} ELSE {})

\* StopCall with a slip: a handle already reaped is not cleared.
StopCallKeepsHandle(s, proc, ch, flag) ==
    IF proc[s] = None
    THEN [process |-> proc, flag |-> flag, out |-> "done"]
    ELSE IF Running(ch, proc[s])
    THEN [process |-> proc, flag |-> [flag EXCEPT ![s] = TRUE], out |-> "waiting"]
    ELSE [process |-> proc, flag |-> [flag EXCEPT ![s] = TRUE], out |-> "done"]

\* StopCall with a slip: on a record without a handle the flag is reset.
StopCallResetsFlag(s, proc, ch, flag) ==
    IF proc[s] = None
    THEN [process |-> proc, flag |-> [flag EXCEPT ![s] = FALSE], out |-> "done"]
    ELSE IF Running(ch, proc[s])
    THEN [process |-> proc, flag |-> [flag EXCEPT ![s] = TRUE], out |-> "waiting"]
    ELSE [process |-> [proc EXCEPT ![s] = None],
          flag    |-> [flag EXCEPT ![s] = TRUE], out |-> "done"]

\* ProcessManager.stop(sub) up to its suspension in _terminate.  out = "done":
\* stop returned without suspending; "waiting": terminate() was sent and the
\* call waits for the child (at most 5 seconds).
StopCall(s, proc, ch, flag) ==
    IF proc[s] = None
    THEN [process |-> proc, flag |-> flag, out |-> "done"]
    ELSE IF Running(ch, proc[s])
    THEN [process |-> proc, flag |-> [flag EXCEPT ![s] = TRUE], out |-> "waiting"]
    ELSE [process |-> [proc EXCEPT ![s] = None],
          flag    |-> [flag EXCEPT ![s] = TRUE], out |-> "done"]

(* ------------------------------ start_all ----------------------------- *)
\* TierOpen with a slip: the tiers after the current one are launched as well.
TierOpenEarly(s) == tier <= TierOf(s)

\* `for tier in [1, 2, 3]`: the start calls gathered now are those of the
\* subsystems of the current tier.
TierOpen(s) == tier = TierOf(s)

\* One of the start(sub) calls gathered for the current tier begins.
StartAllBegin(s) ==
    /\ TierOpen(s)
    /\ tier_start[s] = "idle"
    /\ \E ok \in BOOLEAN :
         LET r == StartCall(s, "start_all", ok, process, child) IN
         /\ process' = r.process
         /\ child' = Collect(r.child, r.process, monitor, stop_tasks)
         /\ tier_start' = [tier_start EXCEPT ![s] =
                              CASE r.out = "spawning" -> "running"
                                [] r.out = "failed"   -> "failed"
                                [] OTHER              -> "ok"]
         /\ event' = StartEvents(s, "start_all", r.out)
    /\ output' = NoOutput
    /\ command' = << >>
    /\ UNCHANGED <<at_eof, loader, crashed, registry, restart_all_confirmation, shutdown, last_heartbeat, restart_pending, intentionally_stopped, clock, tier,
                   monitor, restart_tasks, stop_tasks, stop_handled,
                   stopped_in_delay>>

\* gather returns once every start of the tier has returned; an empty tier is skipped.
StartAllAdvance ==
    /\ tier <= 3
    /\ \A s \in subsystems : TierOf(s) = tier => tier_start[s] \in {"ok", "failed"}
    /\ tier' = tier + 1
    /\ tier_start' = IF tier = 3 THEN [s \in subsystems |-> "returned"] ELSE tier_start
    /\ event' = {}
    /\ output' = NoOutput
    /\ command' = << >>
    /\ UNCHANGED <<at_eof, loader, crashed, registry, restart_all_confirmation, shutdown, process, last_heartbeat, restart_pending, intentionally_stopped, child,
                   clock, monitor, restart_tasks, stop_tasks, stop_handled,
                   stopped_in_delay>>

\* SpawnDone with a slip: last_heartbeat is not set to the time of the spawn.
SpawnDoneNoStamp(c) ==
    /\ child[c].st = "spawning"
    /\ LET s == child[c].sub IN
       /\ process' = [process EXCEPT ![s] = c]
       /\ UNCHANGED last_heartbeat
       /\ intentionally_stopped' = [intentionally_stopped EXCEPT ![s] = FALSE]
       /\ child' = Collect([child EXCEPT ![c] = [st |-> "alive", sub |-> s, by |-> "-"]],
                            [process EXCEPT ![s] = c], monitor, stop_tasks)
       /\ tier_start' = IF child[c].by = "start_all"
                        THEN [tier_start EXCEPT ![s] = "ok"] ELSE tier_start
    /\ event' = {<<"spawned", child[c].sub, child[c].by>>}
    /\ crashed' = crashed \ ({c} \X Streams)
    /\ at_eof' = at_eof \ ({c} \X Streams)
    /\ output' = StartReply(child[c].by, child[c].sub)
    /\ command' = << >>
    /\ UNCHANGED <<loader, registry, restart_all_confirmation, shutdown, restart_pending, clock, tier, monitor, restart_tasks, stop_tasks,
                   stop_handled>>
    /\ StoppedInDelayNext

\* SpawnDone with a slip: intentionally_stopped is left as it is.
SpawnDoneKeepsFlag(c) ==
    /\ child[c].st = "spawning"
    /\ LET s == child[c].sub IN
       /\ process' = [process EXCEPT ![s] = c]
       /\ last_heartbeat' = [last_heartbeat EXCEPT ![s] = clock]
       /\ UNCHANGED intentionally_stopped
       /\ child' = Collect([child EXCEPT ![c] = [st |-> "alive", sub |-> s, by |-> "-"]],
                            [process EXCEPT ![s] = c], monitor, stop_tasks)
       /\ tier_start' = IF child[c].by = "start_all"
                        THEN [tier_start EXCEPT ![s] = "ok"] ELSE tier_start
    /\ event' = {<<"spawned", child[c].sub, child[c].by>>}
    /\ crashed' = crashed \ ({c} \X Streams)
    /\ at_eof' = at_eof \ ({c} \X Streams)
    /\ output' = StartReply(child[c].by, child[c].sub)
    /\ command' = << >>
    /\ UNCHANGED <<loader, registry, restart_all_confirmation, shutdown, restart_pending, clock, tier, monitor, restart_tasks, stop_tasks,
                   stop_handled>>
    /\ StoppedInDelayNext

\* create_subprocess_exec returns the handle: the rest of the try block of start.
SpawnDone(c) ==
    /\ child[c].st = "spawning"
    /\ LET s == child[c].sub IN
       /\ process' = [process EXCEPT ![s] = c]
       /\ last_heartbeat' = [last_heartbeat EXCEPT ![s] = clock]
       /\ intentionally_stopped' = [intentionally_stopped EXCEPT ![s] = FALSE]
       /\ child' = Collect([child EXCEPT ![c] = [st |-> "alive", sub |-> s, by |-> "-"]],
                            [process EXCEPT ![s] = c], monitor, stop_tasks)
       /\ tier_start' = IF child[c].by = "start_all"
                        THEN [tier_start EXCEPT ![s] = "ok"] ELSE tier_start
    /\ event' = {<<"spawned", child[c].sub, child[c].by>>}
    /\ crashed' = crashed \ ({c} \X Streams)
    /\ at_eof' = at_eof \ ({c} \X Streams)
    /\ output' = StartReply(child[c].by, child[c].sub)
    /\ command' = << >>
    /\ UNCHANGED <<loader, registry, restart_all_confirmation, shutdown, restart_pending, clock, tier, monitor, restart_tasks, stop_tasks,
                   stop_handled>>
    /\ StoppedInDelayNext

(* ------------------------------- Monitor ------------------------------ *)
\* TimedOut with a slip: the comparison is not strict.
TimedOutAtLimit(now, hb) == now - hb >= HEARTBEAT_TIMEOUT

\* The comparison of _check_subsystem's heartbeat branch.
TimedOut(now, hb) == now - hb > HEARTBEAT_TIMEOUT

\* CheckBranch with a slip: intentionally stopped subsystems are not skipped.
CheckBranchNoSkip(s, now) ==
    IF process[s] = None THEN "absent"
    ELSE IF ~Running(child, process[s]) THEN "exited"
    ELSE IF TimedOut(now, last_heartbeat[s]) THEN "timeout"
    ELSE "ok"

\* CheckBranch with a slip: a process that has exited is taken for a healthy one.
CheckBranchIgnoresExit(s, now) ==
    IF intentionally_stopped[s] THEN "stopped"
    ELSE IF process[s] = None THEN "absent"
    ELSE IF ~Running(child, process[s]) THEN "ok"
    ELSE IF TimedOut(now, last_heartbeat[s]) THEN "timeout"
    ELSE "ok"

\* The branch _check_subsystem takes for sub at time now.
CheckBranch(s, now) ==
    IF intentionally_stopped[s] THEN "stopped"
    ELSE IF process[s] = None THEN "absent"
    ELSE IF ~Running(child, process[s]) THEN "exited"
    ELSE IF TimedOut(now, last_heartbeat[s]) THEN "timeout"
    ELSE "ok"

\* ScheduleRestart with a slip: a pending restart does not hold back another.
ScheduleRestartAgain(s, why, rp, tasks, ev) ==
    [rp    |-> [rp EXCEPT ![s] = TRUE],
     tasks |-> [tasks EXCEPT ![s] = Append(@, why)],
     ev    |-> ev \cup {<<"schedule", s, why>>}]

\* ScheduleRestart with a slip: the flag is set, no task is created.
ScheduleRestartNoTask(s, why, rp, tasks, ev) ==
    IF rp[s]
    THEN [rp |-> rp, tasks |-> tasks, ev |-> ev]
    ELSE [rp    |-> [rp EXCEPT ![s] = TRUE],
          tasks |-> tasks,
          ev    |-> ev \cup {<<"schedule", s, why>>}]

\* Monitor._schedule_restart: nothing when a restart is pending, else the flag
\* is set and a _restart task is created.
ScheduleRestart(s, why, rp, tasks, ev) ==
    IF rp[s]
    THEN [rp |-> rp, tasks |-> tasks, ev |-> ev]
    ELSE [rp    |-> [rp EXCEPT ![s] = TRUE],
          tasks |-> [tasks EXCEPT ![s] = Append(@, why)],
          ev    |-> ev \cup {<<"schedule", s, why>>}]

\* The for loop of Monitor.run from position i on, up to its next suspension:
\* at = 0 when the loop ended (the monitor sleeps), else the position of the
\* subsystem whose kill the monitor now awaits.
RECURSIVE Scan(_, _, _, _, _)
Scan(i, now, rp, tasks, ev) ==
    IF i > Len(ScanOrder)
    THEN [rp |-> rp, tasks |-> tasks, ev |-> ev, at |-> 0]
    ELSE LET s  == ScanOrder[i]
             br == CheckBranch(s, now)
             sc == ScheduleRestart(s, br, rp, tasks, ev)
         IN  IF br \in {"absent", "exited"} THEN Scan(i + 1, now, sc.rp, sc.tasks, sc.ev)
             ELSE IF br = "timeout"
             THEN [rp |-> rp, tasks |-> tasks,
                   ev |-> ev \cup {<<"kill", s, "monitor">>}, at |-> i]
             ELSE Scan(i + 1, now, rp, tasks, ev)

\* KillCall with a slip: the child is asked to terminate, which it may ignore.
KillCallGraceful(s, proc, ch) == [child |-> ch, sent |-> proc[s] # None]

\* ProcessManager.kill(sub) up to `await sub.process.wait()`: nothing on a
\* record without a handle, else SIGKILL is sent at once.
KillCall(s, proc, ch) ==
    IF proc[s] = None
    THEN [child |-> ch, sent |-> FALSE]
    ELSE [child |-> [ch EXCEPT ![proc[s]].st = "killed"], sent |-> TRUE]

\* The effect of a scan result: the kill the scan stopped at, if any.
ApplyScan(r, now, proc) ==
    /\ restart_pending' = r.rp
    /\ restart_tasks' = r.tasks
    /\ event' = r.ev
    /\ IF r.at = 0
       THEN /\ monitor' = [pc |-> "sleep", idx |-> 0, now |-> 0, h |-> None]
            /\ child' = Collect(child, proc, monitor', stop_tasks)
       ELSE LET s == ScanOrder[r.at]
                h == proc[s]
                k == KillCall(s, proc, child)
            IN
            /\ monitor' = [pc |-> "kill_wait", idx |-> r.at, now |-> now, h |-> h]
            /\ child' = Collect(k.child, proc, monitor', stop_tasks)

\* One iteration of the while loop of Monitor.run (after start_all returned).
MonitorScan ==
    /\ tier = 4
    /\ monitor.pc = "sleep"
    /\ ApplyScan(Scan(1, clock, restart_pending, restart_tasks,
                      {<<"scan", "all", "monitor">>}), clock, process)
    /\ output' = NoOutput
    /\ command' = << >>
    /\ UNCHANGED <<at_eof, loader, crashed, registry, restart_all_confirmation, shutdown, process, last_heartbeat, intentionally_stopped, clock, tier,
                   tier_start, stop_tasks, stop_handled>>
    /\ StoppedInDelayNext

\* The killed child was reaped: kill clears process, _check_subsystem schedules
\* the restart, and the for loop goes on with the same `now`.
MonitorResume ==
    /\ monitor.pc = "kill_wait"
    /\ child[monitor.h].st = "exited"
    /\ LET s  == ScanOrder[monitor.idx]
           sc == ScheduleRestart(s, "timeout", restart_pending, restart_tasks, {})
       IN  /\ process' = [process EXCEPT ![s] = None]
           /\ ApplyScan(Scan(monitor.idx + 1, monitor.now, sc.rp, sc.tasks, sc.ev),
                        monitor.now, [process EXCEPT ![s] = None])
    /\ output' = NoOutput
    /\ command' = << >>
    /\ UNCHANGED <<at_eof, loader, crashed, registry, restart_all_confirmation, shutdown, last_heartbeat, intentionally_stopped, clock, tier, tier_start,
                   stop_tasks, stop_handled>>
    /\ StoppedInDelayNext

\* RestartWake with a slip: the task does not look at intentionally_stopped.
RestartWakeAlways(s) ==
    /\ restart_tasks[s] # << >>
    /\ restart_pending' = [restart_pending EXCEPT ![s] = FALSE]
    /\ restart_tasks' = [restart_tasks EXCEPT ![s] = Tail(@)]
    /\ IF FALSE
       THEN /\ event' = {<<"wake", s, Head(restart_tasks[s])>>}
            /\ UNCHANGED <<process, child>>
       ELSE \E ok \in BOOLEAN :
              LET r == StartCall(s, "monitor", ok, process, child) IN
              /\ process' = r.process
              /\ child' = Collect(r.child, r.process, monitor, stop_tasks)
              /\ event' = {<<"wake", s, Head(restart_tasks[s])>>}
                          \cup StartEvents(s, "monitor", r.out)
    /\ output' = NoOutput
    /\ command' = << >>
    /\ UNCHANGED <<at_eof, loader, crashed, registry, restart_all_confirmation, shutdown, last_heartbeat, intentionally_stopped, clock, tier, tier_start,
                   monitor, stop_tasks, stop_handled>>
    /\ StoppedInDelayNext

\* A _restart task wakes from asyncio.sleep(RESTART_DELAY).
RestartWake(s) ==
    /\ restart_tasks[s] # << >>
    /\ restart_pending' = [restart_pending EXCEPT ![s] = FALSE]
    /\ restart_tasks' = [restart_tasks EXCEPT ![s] = Tail(@)]
    /\ IF intentionally_stopped[s]
       THEN /\ event' = {<<"wake", s, Head(restart_tasks[s])>>}
            /\ UNCHANGED <<process, child>>
       ELSE \E ok \in BOOLEAN :
              LET r == StartCall(s, "monitor", ok, process, child) IN
              /\ process' = r.process
              /\ child' = Collect(r.child, r.process, monitor, stop_tasks)
              /\ event' = {<<"wake", s, Head(restart_tasks[s])>>}
                          \cup StartEvents(s, "monitor", r.out)
    /\ output' = NoOutput
    /\ command' = << >>
    /\ UNCHANGED <<at_eof, loader, crashed, registry, restart_all_confirmation, shutdown, last_heartbeat, intentionally_stopped, clock, tier, tier_start,
                   monitor, stop_tasks, stop_handled>>
    /\ StoppedInDelayNext

(* --------------------------- CommandHandler --------------------------- *)
\* A SYSTEM CMD line can only come from a stream reader, which start creates
\* once a child's handle is returned.
ReaderExists == \E c \in Children : child[c].st \in {"alive", "killed", "exited"}

\* An operator `start` or `restart` of s is still being handled.
OperatorStartInFlight(s, ch, tasks) ==
    \/ \E c \in Children : ch[c].st = "spawning" /\ ch[c].sub = s
                           /\ ch[c].by \in {"start", "restart"}
    \/ \E t \in tasks : t.kind = "restart" /\ t.sub = s

\* A stop or restart command suspended in _terminate: waiting (at most 5 s) for
\* child h after terminate() (pc = "term_wait"), or for child h after the kill
\* that follows the timeout (pc = "kill_wait").
StopTask(kind, s, pc, h) == [kind |-> kind, sub |-> s, pc |-> pc, h |-> h]

\* A command that replies and returns: nothing else changes.
ReplyOnly(level, message, ev) ==
    /\ output' = Reply(level, message)
    /\ event' = ev
    /\ UNCHANGED <<at_eof, loader, crashed, registry, process, last_heartbeat, restart_pending,
                   intentionally_stopped, child, clock, tier, tier_start, monitor,
                   restart_tasks, stop_tasks, restart_all_confirmation, shutdown,
                   stop_handled,
                   stopped_in_delay>>

\* CommandHandler._stop from the telemetry check on, for a name that is
\* telemetry or registered.
CmdStop(s) ==
    /\ ReaderExists
    /\ IF s = "telemetry"
       THEN /\ event' = {<<"blocked", s, "stop">>}
            /\ output' = Reply("ERROR", <<"BLOCKED:", " ",
                             "Stopping telemetry is irrecoverable. Use 'restart telemetry' instead.">>)
            /\ UNCHANGED <<process, intentionally_stopped, stop_tasks, stop_handled, child>>
       ELSE LET r == StopCall(s, process, child,
                              [intentionally_stopped EXCEPT ![s] = TRUE])
                t == StopTask("stop", s, "term_wait", process[s])
            IN  /\ r.out = "waiting" => Cardinality(stop_tasks) < MaxStops /\ t \notin stop_tasks
                /\ process' = r.process
                /\ intentionally_stopped' = r.flag
                /\ stop_tasks' = IF r.out = "waiting" THEN stop_tasks \cup {t} ELSE stop_tasks
                /\ stop_handled' =
                     IF r.out = "done" /\ ~OperatorStartInFlight(s, child, stop_tasks)
                     THEN [stop_handled EXCEPT ![s] = TRUE] ELSE stop_handled
                /\ child' = Collect(child, r.process, monitor, stop_tasks)
                /\ event' = {<<"stop", s, "stop">>} \cup
                            (IF r.out = "done" THEN {<<"stopped", s, "stop">>} ELSE {})
                /\ output' = IF r.out = "done"
                             THEN Reply("WARNING", <<"Stopped", " ", s>>) ELSE NoOutput
    /\ UNCHANGED <<at_eof, loader, crashed, registry, restart_all_confirmation, shutdown, last_heartbeat, restart_pending, clock, tier, tier_start,
                   monitor, restart_tasks>>
    /\ StoppedInDelayNext

\* CommandHandler._start from the liveness check on, for a registered name.
CmdStart(s) ==
    /\ ReaderExists
    /\ stop_handled' = [stop_handled EXCEPT ![s] = FALSE]
    /\ IF HasLiveProcess(process, child, s)
       THEN /\ event' = {<<"error", s, "start">>}
            /\ output' = Reply("ERROR", <<s, " ", "already running. Use 'restart", " ", s,
                                          "' instead.">>)
            /\ UNCHANGED <<process, child>>
       ELSE \E ok \in BOOLEAN :
              LET r == StartCall(s, "start", ok, process, child) IN
              /\ process' = r.process
              /\ child' = Collect(r.child, r.process, monitor, stop_tasks)
              /\ event' = StartEvents(s, "start", r.out)
              /\ output' = IF r.out = "spawning" THEN NoOutput ELSE StartReply("start", s)
    /\ UNCHANGED <<at_eof, loader, crashed, registry, restart_all_confirmation, shutdown, last_heartbeat, restart_pending, intentionally_stopped, clock, tier,
                   tier_start, monitor, restart_tasks, stop_tasks,
                   stopped_in_delay>>

\* CommandHandler._restart from the stop on, for a registered name: stop, then start.
CmdRestart(s) ==
    /\ ReaderExists
    /\ stop_handled' = [stop_handled EXCEPT ![s] = FALSE]
    /\ LET r == StopCall(s, process, child, intentionally_stopped)
           t == StopTask("restart", s, "term_wait", process[s])
       IN  /\ intentionally_stopped' = r.flag
           /\ IF r.out = "waiting"
              THEN /\ Cardinality(stop_tasks) < MaxStops
                   /\ t \notin stop_tasks
                   /\ stop_tasks' = stop_tasks \cup {t}
                   /\ event' = {<<"stop", s, "restart">>}
                   /\ output' = NoOutput
                   /\ UNCHANGED <<process, child>>
              ELSE \E ok \in BOOLEAN :
                     LET st == StartCall(s, "restart", ok, r.process, child) IN
                     /\ process' = st.process
                     /\ child' = Collect(st.child, st.process, monitor, stop_tasks)
                     /\ event' = {<<"stop", s, "restart">>, <<"stopped", s, "restart">>}
                                 \cup StartEvents(s, "restart", st.out)
                     /\ output' = IF st.out = "spawning" THEN NoOutput
                                  ELSE StartReply("restart", s)
                     /\ UNCHANGED stop_tasks
    /\ UNCHANGED <<at_eof, loader, crashed, registry, restart_all_confirmation, shutdown, last_heartbeat, restart_pending, clock, tier, tier_start, monitor,
                   restart_tasks>>
    /\ StoppedInDelayNext

\* _terminate resumes because the awaited child was reaped: process is cleared
\* and stop returns; a restart command goes on with start.
StopResume(t) ==
    /\ t \in stop_tasks
    /\ command' = << >>
    /\ child[t.h].st = "exited"
    /\ stop_tasks' = stop_tasks \ {t}
    /\ IF t.kind = "stop"
       THEN /\ process' = [process EXCEPT ![t.sub] = None]
            /\ stop_handled' =
                 IF ~OperatorStartInFlight(t.sub, child, stop_tasks \ {t})
                 THEN [stop_handled EXCEPT ![t.sub] = TRUE] ELSE stop_handled
            /\ event' = {<<"stopped", t.sub, "stop">>}
            /\ output' = Reply("WARNING", <<"Stopped", " ", t.sub>>)
            /\ child' = Collect(child, process', monitor, stop_tasks')
       ELSE IF t.kind = "shutdown"
       THEN /\ process' = [process EXCEPT ![t.sub] = None]
            /\ event' = {<<"stopped", t.sub, "shutdown">>}
            /\ output' = NoOutput
            /\ child' = Collect(child, process', monitor, stop_tasks')
            /\ UNCHANGED stop_handled
       ELSE \E ok \in BOOLEAN :
              LET st == StartCall(t.sub, "restart", ok,
                                  [process EXCEPT ![t.sub] = None], child) IN
              /\ process' = st.process
              /\ child' = Collect(st.child, st.process, monitor, stop_tasks')
              /\ event' = {<<"stopped", t.sub, "restart">>}
                          \cup StartEvents(t.sub, "restart", st.out)
              /\ output' = IF st.out = "spawning" THEN NoOutput
                           ELSE StartReply("restart", t.sub)
              /\ UNCHANGED stop_handled
    /\ UNCHANGED <<at_eof, loader, crashed, registry, restart_all_confirmation, shutdown, last_heartbeat, restart_pending, intentionally_stopped, clock, tier,
                   tier_start, monitor, restart_tasks,
                   stopped_in_delay>>

\* The 5 second budget of wait_for expires with the child still running:
\* `sub.process.kill(); await sub.process.wait()` on whatever sub.process is now.
\* On None that raises and the command ends with an error reply; on a handle
\* already reaped kill() raises ProcessLookupError or does nothing (`raises`).
\* Raised in a stop of stop_all, the exception ends Supervisor.shutdown.
StopTimeout(t) ==
    /\ t \in stop_tasks
    /\ command' = << >>
    /\ t.pc = "term_wait"
    /\ Running(child, t.h)
    /\ LET p == process[t.sub] IN
       \E raises \in BOOLEAN :
         IF p = None \/ (~Running(child, p) /\ raises)
         THEN /\ stop_tasks' = stop_tasks \ {t}
              /\ event' = {<<"error", t.sub, t.kind>>}
              /\ output' = IF t.kind = "shutdown"
                           THEN Reply("ERROR", <<"Error during shutdown:", " ", "exception">>)
                           ELSE Reply("ERROR", <<"Failed to stop", " ", t.sub, ":", " ",
                                                 "exception">>)
              /\ shutdown' = IF t.kind = "shutdown" /\ shutdown = "stop_all"
                             THEN "failed" ELSE shutdown
              /\ child' = Collect(child, process, monitor, stop_tasks')
         ELSE /\ stop_tasks' = (stop_tasks \ {t}) \cup {StopTask(t.kind, t.sub, "kill_wait", p)}
              /\ child' = Collect(IF Running(child, p)
                                   THEN [child EXCEPT ![p].st = "killed"] ELSE child,
                                   process, monitor, stop_tasks')
              /\ event' = {<<"kill", t.sub, t.kind>>}
              /\ output' = NoOutput
              /\ UNCHANGED shutdown
    /\ UNCHANGED <<at_eof, loader, crashed, registry, restart_all_confirmation, process, last_heartbeat, restart_pending, intentionally_stopped, clock,
                   tier, tier_start, monitor, restart_tasks, stop_handled,
                   stopped_in_delay>>

\* Stop with a slip: the name is looked up before telemetry is refused.
StopLooksUpFirst(args) ==
    IF Len(args) < 4
    THEN ReaderExists /\ ReplyOnly("ERROR", <<"No process specified">>,
                                   {<<"error", "all", "no process">>})
    ELSE IF args[4] \notin subsystems
    THEN ReaderExists /\ ReplyOnly("ERROR", <<"Process '", args[4], "' not found">>,
                                   {<<"error", "all", "not found">>})
    ELSE CmdStop(args[4])

\* CommandHandler._stop
Stop(args) ==
    IF Len(args) < 4
    THEN ReaderExists /\ ReplyOnly("ERROR", <<"No process specified">>,
                                   {<<"error", "all", "no process">>})
    ELSE IF args[4] # "telemetry" /\ args[4] \notin subsystems
    THEN ReaderExists /\ ReplyOnly("ERROR", <<"Process '", args[4], "' not found">>,
                                   {<<"error", "all", "not found">>})
    ELSE CmdStop(args[4])

\* CommandHandler._start
Start(args) ==
    IF Len(args) < 4
    THEN ReaderExists /\ ReplyOnly("ERROR", <<"No process specified">>,
                                   {<<"error", "all", "no process">>})
    ELSE IF args[4] \notin subsystems
    THEN ReaderExists /\ ReplyOnly("ERROR", <<"Process '", args[4], "' not found">>,
                                   {<<"error", "all", "not found">>})
    ELSE CmdStart(args[4])

\* CommandHandler._restart
Restart(args) ==
    IF Len(args) < 4
    THEN ReaderExists /\ ReplyOnly("ERROR", <<"No process specified">>,
                                   {<<"error", "all", "no process">>})
    ELSE IF args[4] \notin subsystems
    THEN ReaderExists /\ ReplyOnly("ERROR", <<"Process '", args[4], "' not found">>,
                                   {<<"error", "all", "not found">>})
    ELSE CmdRestart(args[4])

(* ------------------------- restart-all, shutdown ---------------------- *)
\* str.lower() on the tokens a command carries.
Lower(tok) == IF tok = "Y" THEN "y" ELSE IF tok = "N" THEN "n" ELSE tok

\* SYSTEM CMD lines as _read_stream splits them.
Commands ==
    { <<"SYSTEM", "CMD">>,
      <<"SYSTEM", "CMD", "y">>, <<"SYSTEM", "CMD", "Y">>, <<"SYSTEM", "CMD", "n">>,
      <<"SYSTEM", "CMD", "restart-all">>,
      <<"SYSTEM", "CMD", "restart-all", "y">>, <<"SYSTEM", "CMD", "restart-all", "n">>,
      <<"SYSTEM", "CMD", "stop", "drive">> }

\* ProcessManager.stop_all from registry position i on: every stop(sub) call up
\* to its suspension in _terminate.
RECURSIVE StopAll(_, _, _, _)
StopAll(i, proc, flag, tasks) ==
    IF i > Len(registry)
    THEN [process |-> proc, flag |-> flag, tasks |-> tasks]
    ELSE LET s == registry[i]
             r == StopCall(s, proc, child, flag)
         IN  StopAll(i + 1, r.process, r.flag,
                     IF r.out = "waiting"
                     THEN tasks \cup {StopTask("shutdown", s, "term_wait", proc[s])}
                     ELSE tasks)

\* Supervisor.shutdown up to `await self.process_manager.stop_all()`.
ShutdownCall ==
    IF shutdown # "idle"
    THEN /\ event' = {<<"shutdown", "all", "again">>}
         /\ UNCHANGED <<process, intentionally_stopped, stop_tasks, shutdown, child>>
    ELSE LET r == StopAll(1, process, intentionally_stopped, stop_tasks) IN
         /\ shutdown' = "stop_all"
         /\ process' = r.process
         /\ intentionally_stopped' = r.flag
         /\ stop_tasks' = r.tasks
         /\ child' = Collect(child, r.process, monitor, r.tasks)
         /\ event' = {<<"shutdown", "all", "begin">>}

\* HandleRestartAllConfirmation with a slip: the last token is the answer.
ConfirmationByLastToken(args) ==
    /\ restart_all_confirmation' = FALSE
    /\ IF Len(args) >= 3 /\ Lower(args[Len(args)]) = "y"
       THEN /\ output' = Reply("CRITICAL", <<"Shutting down supervisor...">>)
            /\ ShutdownCall
       ELSE /\ event' = {<<"cancelled", "all", "restart-all">>}
            /\ output' = Reply("INFO", <<"Restart-all cancelled">>)
            /\ UNCHANGED <<process, intentionally_stopped, stop_tasks, shutdown, child>>
    /\ UNCHANGED <<at_eof, loader, crashed, registry, last_heartbeat, restart_pending, clock, tier, tier_start, monitor,
                   restart_tasks, stop_handled>>
    /\ StoppedInDelayNext

\* CommandHandler._handle_restart_all_confirmation
HandleRestartAllConfirmation(args) ==
    /\ restart_all_confirmation' = FALSE
    /\ IF Len(args) >= 3 /\ Lower(args[3]) = "y"
       THEN /\ output' = Reply("CRITICAL", <<"Shutting down supervisor...">>)
            /\ ShutdownCall
       ELSE /\ event' = {<<"cancelled", "all", "restart-all">>}
            /\ output' = Reply("INFO", <<"Restart-all cancelled">>)
            /\ UNCHANGED <<process, intentionally_stopped, stop_tasks, shutdown, child>>
    /\ UNCHANGED <<at_eof, loader, crashed, registry, last_heartbeat, restart_pending, clock, tier, tier_start, monitor,
                   restart_tasks, stop_handled>>
    /\ StoppedInDelayNext

\* Handle with a slip: a pending confirmation is looked at after the commands.
HandleCommandsFirst(args) ==
    /\ ReaderExists
    /\ shutdown # "done"
    /\ command' = args
    /\ IF Len(args) < 3
       THEN ReplyOnly("ERROR", <<"No command specified">>, {<<"error", "all", "no command">>})
       ELSE IF args[3] = "restart" THEN Restart(args)
       ELSE IF args[3] = "stop" THEN Stop(args)
       ELSE IF args[3] = "start" THEN Start(args)
       ELSE IF restart_all_confirmation
       THEN HandleRestartAllConfirmation(args)
       ELSE IF args[3] = "restart-all"
       THEN /\ restart_all_confirmation' = TRUE
            /\ event' = {<<"confirm", "all", "restart-all">>}
            /\ output' = Reply("WARNING", <<"WARNING: restart-all will terminate supervisor.",
                                            " ", "Systemd must restart it. Confirm? [y/n]">>)
            /\ UNCHANGED <<at_eof, loader, crashed, registry, process, last_heartbeat, restart_pending,
                           intentionally_stopped, child, clock, tier, tier_start, monitor,
                           restart_tasks, stop_tasks, shutdown, stop_handled, stopped_in_delay>>
       ELSE IF args[3] = "help"
       THEN ReplyOnly("INFO", <<"Available commands:">>, {<<"help", "all", "help">>})
       ELSE ReplyOnly("ERROR", <<"Unknown command:", " ", args[3]>>,
                      {<<"error", "all", "unknown command">>})

\* Handle with a slip: restart-all is recognised before the pending
\* confirmation is looked at, so a second restart-all re-arms the flag.
HandleRestartAllFirst(args) ==
    /\ ReaderExists
    /\ shutdown # "done"
    /\ command' = args
    /\ IF Len(args) < 3
       THEN ReplyOnly("ERROR", <<"No command specified">>, {<<"error", "all", "no command">>})
       ELSE IF args[3] = "restart-all"
       THEN /\ restart_all_confirmation' = TRUE
            /\ event' = {<<"confirm", "all", "restart-all">>}
            /\ output' = Reply("WARNING", <<"WARNING: restart-all will terminate supervisor.",
                                            " ", "Systemd must restart it. Confirm? [y/n]">>)
            /\ UNCHANGED <<at_eof, loader, crashed, registry, process, last_heartbeat, restart_pending,
                           intentionally_stopped, child, clock, tier, tier_start, monitor,
                           restart_tasks, stop_tasks, shutdown, stop_handled, stopped_in_delay>>
       ELSE IF restart_all_confirmation
       THEN HandleRestartAllConfirmation(args)
       ELSE IF args[3] = "restart" THEN Restart(args)
       ELSE IF args[3] = "stop" THEN Stop(args)
       ELSE IF args[3] = "start" THEN Start(args)
       ELSE IF args[3] = "help"
       THEN ReplyOnly("INFO", <<"Available commands:">>, {<<"help", "all", "help">>})
       ELSE ReplyOnly("ERROR", <<"Unknown command:", " ", args[3]>>,
                      {<<"error", "all", "unknown command">>})

\* CommandHandler.handle: the command task a stream reader created for the
\* token vector args runs.
Handle(args) ==
    /\ ReaderExists
    /\ shutdown # "done"
    /\ command' = args
    /\ IF Len(args) < 3
       THEN ReplyOnly("ERROR", <<"No command specified">>, {<<"error", "all", "no command">>})
       ELSE IF restart_all_confirmation
       THEN HandleRestartAllConfirmation(args)
       ELSE IF args[3] = "restart" THEN Restart(args)
       ELSE IF args[3] = "stop" THEN Stop(args)
       ELSE IF args[3] = "start" THEN Start(args)
       ELSE IF args[3] = "restart-all"
       THEN /\ restart_all_confirmation' = TRUE
            /\ event' = {<<"confirm", "all", "restart-all">>}
            /\ output' = Reply("WARNING", <<"WARNING: restart-all will terminate supervisor.",
                                            " ", "Systemd must restart it. Confirm? [y/n]">>)
            /\ UNCHANGED <<at_eof, loader, crashed, registry, process, last_heartbeat, restart_pending,
                           intentionally_stopped, child, clock, tier, tier_start, monitor,
                           restart_tasks, stop_tasks, shutdown, stop_handled, stopped_in_delay>>
       ELSE IF args[3] = "help"
       THEN ReplyOnly("INFO", <<"Available commands:">>, {<<"help", "all", "help">>})
       ELSE ReplyOnly("ERROR", <<"Unknown command:", " ", args[3]>>,
                      {<<"error", "all", "unknown command">>})

\* The completion line of Supervisor.shutdown.
ShutdownComplete == ConsoleLine("log", "INFO", <<"Supervisor shutdown complete">>)

\* ShutdownEnd with a slip: the tasks are cancelled and the socket is closed
\* without waiting for stop_all.
ShutdownEndEarly ==
    /\ shutdown = "stop_all"
    /\ shutdown' = "done"
    /\ stop_tasks' = {}
    /\ restart_tasks' = [s \in subsystems |-> << >>]
    /\ monitor' = [pc |-> "cancelled", idx |-> 0, now |-> 0, h |-> None]
    /\ tier' = 4
    /\ tier_start' = [s \in subsystems |-> "returned"]
    /\ \E forked \in BOOLEAN :
         child' = Collect([c \in Children |->
                              IF child[c].st = "spawning"
                              THEN (IF forked
                                    THEN [st |-> "alive", sub |-> child[c].sub, by |-> "-"]
                                    ELSE Unborn)
                              ELSE child[c]],
                          process, monitor', {})
    /\ event' = {<<"shutdown", "all", "done">>}
    /\ output' = [NoOutput EXCEPT !.console = <<ShutdownComplete>>]
    /\ command' = << >>
    /\ UNCHANGED <<at_eof, loader, crashed, registry, process, last_heartbeat, restart_pending, intentionally_stopped,
                   clock, restart_all_confirmation, stop_handled>>
    /\ StoppedInDelayNext

\* stop_all has returned: shutdown cancels every other task (start_all or
\* Monitor.run, the sleeping _restart tasks, the stream readers, the commands
\* still waiting in _terminate, the start calls suspended in their spawn) and
\* closes the publisher socket and the context and logs its completion line.
\* A cancelled spawn may or may not leave its child behind (forked).
ShutdownEnd ==
    /\ shutdown = "stop_all"
    /\ \A t \in stop_tasks : t.kind # "shutdown"
    /\ shutdown' = "done"
    /\ stop_tasks' = {}
    /\ restart_tasks' = [s \in subsystems |-> << >>]
    /\ monitor' = [pc |-> "cancelled", idx |-> 0, now |-> 0, h |-> None]
    /\ tier' = 4
    /\ tier_start' = [s \in subsystems |-> "returned"]
    /\ \E forked \in BOOLEAN :
         child' = Collect([c \in Children |->
                              IF child[c].st = "spawning"
                              THEN (IF forked
                                    THEN [st |-> "alive", sub |-> child[c].sub, by |-> "-"]
                                    ELSE Unborn)
                              ELSE child[c]],
                          process, monitor', {})
    /\ event' = {<<"shutdown", "all", "done">>}
    /\ output' = [NoOutput EXCEPT !.console = <<ShutdownComplete>>]
    /\ command' = << >>
    /\ UNCHANGED <<at_eof, loader, crashed, registry, process, last_heartbeat, restart_pending, intentionally_stopped,
                   clock, restart_all_confirmation, stop_handled>>
    /\ StoppedInDelayNext

(* ----------------------------- environment ---------------------------- *)
\* loop.time() advances.
Tick ==
    /\ clock < MaxClock
    /\ clock' = clock + TimeUnit
    /\ event' = {}
    /\ output' = NoOutput
    /\ command' = << >>
    /\ UNCHANGED <<at_eof, loader, crashed, registry, restart_all_confirmation, shutdown, process, last_heartbeat, restart_pending, intentionally_stopped, child,
                   tier, tier_start, monitor, restart_tasks, stop_tasks, stop_handled,
                   stopped_in_delay>>

\* Whether child c, whose pipe a reader is reading, is the child the record of
\* its subsystem holds now.
Writer(c) == IF process[child[c].sub] = c THEN "current" ELSE "previous"

\* Heartbeat with a slip: the time stored is that of the previous clock step.
HeartbeatStale(c) ==
    /\ child[c].st = "alive"
    /\ \E stream \in Streams : <<c, stream>> \notin crashed
    /\ last_heartbeat' = [last_heartbeat EXCEPT ![child[c].sub] = clock - TimeUnit]
    /\ event' = {<<"heartbeat", child[c].sub, "reader">>, <<"writer", child[c].sub, Writer(c)>>}
    /\ output' = NoOutput
    /\ command' = << >>
    /\ UNCHANGED <<at_eof, loader, crashed, registry, restart_all_confirmation, shutdown, process, restart_pending, intentionally_stopped, child, clock, tier,
                   tier_start, monitor, restart_tasks, stop_tasks, stop_handled,
                   stopped_in_delay>>

\* _read_stream reads the line HEARTBEAT written by child c.
Heartbeat(c) ==
    /\ child[c].st = "alive"
    /\ \E stream \in Streams : <<c, stream>> \notin crashed
    /\ last_heartbeat' = [last_heartbeat EXCEPT ![child[c].sub] = clock]
    /\ event' = {<<"heartbeat", child[c].sub, "reader">>, <<"writer", child[c].sub, Writer(c)>>}
    /\ output' = NoOutput
    /\ command' = << >>
    /\ UNCHANGED <<at_eof, loader, crashed, registry, restart_all_confirmation, shutdown, process, restart_pending, intentionally_stopped, child, clock, tier,
                   tier_start, monitor, restart_tasks, stop_tasks, stop_handled,
                   stopped_in_delay>>

\* Child c exits (on its own, or after a signal) and the loop reaps it:
\* its returncode is set.
ChildExit(c) ==
    /\ Running(child, c)
    /\ child' = Collect([child EXCEPT ![c].st = "exited"], process, monitor, stop_tasks)
    /\ event' = {}
    /\ output' = NoOutput
    /\ command' = << >>
    /\ UNCHANGED <<at_eof, loader, crashed, registry, restart_all_confirmation, shutdown, process, last_heartbeat, restart_pending, intentionally_stopped, clock,
                   tier, tier_start, monitor, restart_tasks, stop_tasks, stop_handled,
                   stopped_in_delay>>

(* ---------------------------- _read_stream ---------------------------- *)
\* A text is the sequence of its pieces: words, and single blanks " ".
RECURSIVE StripLeft(_)
StripLeft(text) ==
    IF text # << >> /\ Head(text) = " " THEN StripLeft(Tail(text)) ELSE text

RECURSIVE StripRight(_)
StripRight(text) ==
    IF text # << >> /\ text[Len(text)] = " "
    THEN StripRight(SubSeq(text, 1, Len(text) - 1)) ELSE text

\* str.strip()
Strip(text) == StripRight(StripLeft(text))

NotBlank(piece) == piece # " "

\* str.split(): the words, without the blanks between and around them.
Split(text) == SelectSeq(text, NotBlank)

\* str.startswith(literal)
StartsWith(text, literal) ==
    Len(text) >= Len(literal) /\ SubSeq(text, 1, Len(literal)) = literal

\* str.upper() on the level names a child writes.
Upper(level) ==
    CASE level \in {"debug", "Debug", "DEBUG"} -> "DEBUG"
      [] level \in {"info", "INFO"}            -> "INFO"
      [] level \in {"warning", "WARNING"}      -> "WARNING"
      [] level \in {"error", "ERROR"}          -> "ERROR"
      [] level \in {"critical", "CRITICAL"}    -> "CRITICAL"
      [] level = "trace"                       -> "TRACE"
      [] OTHER                                 -> level

\* A line a child wrote that json.loads rejects: plain text.
Plain(raw) ==
    [raw |-> raw, json |-> "invalid",
     has_msg |-> FALSE, msg_is_str |-> FALSE, msg |-> << >>,
     has_level |-> FALSE, level_is_str |-> FALSE, level |-> "-"]

\* A line that is a JSON value other than an object (a number, a list, null).
NonObject(raw) ==
    [raw |-> raw, json |-> "value",
     has_msg |-> FALSE, msg_is_str |-> FALSE, msg |-> << >>,
     has_level |-> FALSE, level_is_str |-> FALSE, level |-> "-"]

\* A line that is a JSON object: its keys msg and level may be missing, and
\* their values are strings or not (a number, null, a list).
Object(has_msg, msg_is_str, msg, has_level, level_is_str, level) ==
    [raw |-> <<"{...}">>, json |-> "object",
     has_msg |-> has_msg, msg_is_str |-> msg_is_str, msg |-> msg,
     has_level |-> has_level, level_is_str |-> level_is_str, level |-> level]

\* An object with a string msg and a string level.
Log(level, msg) == Object(TRUE, TRUE, msg, TRUE, TRUE, level)

\* The texts a child puts in a line or in the msg of a structured line.
Texts ==
    { <<"HEARTBEAT">>,
      <<" ", "HEARTBEAT", " ">>,
      <<"SYSTEM", " ", "CMD">>,
      <<"SYSTEM", " ", "CMD", " ", "stop", " ", "drive">>,
      <<"SYSTEM", " ", "CMD", " ", " ", "restart-all", " ">>,
      <<" ", "SYSTEM", " ", "CMD", " ", "help">>,
      <<"SYSTEM", " ", " ", "CMD", " ", "help">>,
      <<"JSON", " ", "{\"type\":\"drive\",\"data\":{}}">>,
      <<"JSON", " ">>,
      <<"JSON">>,
      <<"motor", " ", "ready">>,
      << >> }

\* The texts a child puts in the msg of a structured line.
Messages ==
    { <<"HEARTBEAT">>,
      <<"SYSTEM", " ", "CMD", " ", "stop", " ", "drive">>,
      <<" ", "SYSTEM", " ", "CMD", " ", "help">>,
      <<"JSON", " ", "{\"type\":\"drive\",\"data\":{}}">>,
      <<"motor", " ", "ready">> }

\* The levels a child gives a structured line.
Levels == {"debug", "DEBUG", "info", "WARNING", "error", "CRITICAL", "trace"}

\* The lines a child writes on one of its pipes.
Lines ==
    {Plain(text) : text \in Texts}
    \cup {Log(level, text) : level \in Levels, text \in Messages}
    \cup {Object(TRUE, TRUE, text, FALSE, FALSE, "-") : text \in Messages}
    \cup {Object(FALSE, FALSE, << >>, TRUE, TRUE, level) : level \in Levels}
    \cup {Object(TRUE, FALSE, <<"5">>, TRUE, TRUE, level) : level \in {"info", "debug"}}
    \cup {Object(TRUE, FALSE, <<"None">>, FALSE, FALSE, "-")}
    \cup {Object(TRUE, TRUE, text, TRUE, FALSE, "-") : text \in {<<"motor", " ", "ready">>}}
    \cup {NonObject(<<"5">>), NonObject(<<"[1,", " ", "2]">>)}

\* The stream_name a reader task runs with: start passes only the subsystem and
\* the pipe to _read_stream, so both readers keep the default "stdout".
StreamName(stream) == "stdout"

\* Lines 191-200 of _read_stream: the message and the level of a line.  The
\* try block succeeds on an object whose level is missing or a string;
\* anything else (no JSON, not an object, a level without upper()) ends in the
\* except branch.
Decode(line, stream_name) ==
    IF line.json = "object" /\ (~line.has_level \/ line.level_is_str)
    THEN [message |-> IF line.has_msg THEN line.msg ELSE << >>,
          is_str  |-> ~line.has_msg \/ line.msg_is_str,
          level   |-> IF line.has_level THEN Upper(line.level) ELSE "INFO"]
    ELSE [message |-> Strip(line.raw),
          is_str  |-> TRUE,
          level   |-> IF stream_name = "stderr" THEN "ERROR" ELSE "INFO"]

\* The print of line 208.
Received(name, message) ==
    ConsoleLine("print", "-", <<"Received from", " ", name, ":", " ">> \o message)

\* ReadOne with a slip: the SYSTEM CMD test comes before the DEBUG test.
ReadOneCommandFirst(name, line, stream_name, sendok) ==
    LET d == Decode(line, stream_name) IN
    IF Strip(line.raw) = <<"HEARTBEAT">>
    THEN [kind |-> "heartbeat", console |-> << >>, bus |-> << >>,
          dispatched |-> << >>, raises |-> FALSE]
    ELSE IF d.is_str /\ StartsWith(d.message, <<"SYSTEM", " ", "CMD">>)
    THEN [kind |-> "command", console |-> <<Received(name, d.message)>>, bus |-> << >>,
          dispatched |-> <<Split(d.message)>>, raises |-> FALSE]
    ELSE IF d.level = "DEBUG"
    THEN [kind |-> "debug", console |-> << >>, bus |-> << >>,
          dispatched |-> << >>, raises |-> FALSE]
    ELSE IF ~d.is_str
    THEN [kind |-> "raise", console |-> <<Received(name, d.message)>>, bus |-> << >>,
          dispatched |-> << >>, raises |-> TRUE]
    ELSE IF StartsWith(d.message, <<"JSON", " ">>)
    THEN [kind |-> "json", console |-> <<Received(name, d.message)>>,
          bus |-> IF sendok THEN << <<"TELEMETRY", " ">> \o d.message >> ELSE << >>,
          dispatched |-> << >>, raises |-> ~sendok]
    ELSE [kind |-> "log",
          console |-> <<Received(name, d.message),
                        ConsoleLine("log", LogLevel(d.level),
                                    <<"[", name, "]", " ">> \o d.message)>>,
          bus |-> IF sendok
                  THEN << <<"TELEMETRY", " ", d.level, " ", "[", name, "]:", " ">>
                          \o d.message >>
                  ELSE << >>,
          dispatched |-> << >>, raises |-> ~sendok]

\* What one iteration of the while loop of _read_stream does with a line read
\* for subsystem name: the case it takes, what it writes, whether an exception
\* leaves the loop.  sendok: the publisher accepts the frame.
ReadOne(name, line, stream_name, sendok) ==
    LET d == Decode(line, stream_name) IN
    IF Strip(line.raw) = <<"HEARTBEAT">>
    THEN [kind |-> "heartbeat", console |-> << >>, bus |-> << >>,
          dispatched |-> << >>, raises |-> FALSE]
    ELSE IF d.level = "DEBUG"
    THEN [kind |-> "debug", console |-> << >>, bus |-> << >>,
          dispatched |-> << >>, raises |-> FALSE]
    ELSE IF ~d.is_str
    THEN [kind |-> "raise", console |-> <<Received(name, d.message)>>, bus |-> << >>,
          dispatched |-> << >>, raises |-> TRUE]
    ELSE IF StartsWith(d.message, <<"SYSTEM", " ", "CMD">>)
    THEN [kind |-> "command", console |-> <<Received(name, d.message)>>, bus |-> << >>,
          dispatched |-> <<Split(d.message)>>, raises |-> FALSE]
    ELSE IF StartsWith(d.message, <<"JSON", " ">>)
    THEN [kind |-> "json", console |-> <<Received(name, d.message)>>,
          bus |-> IF sendok THEN << <<"TELEMETRY", " ">> \o d.message >> ELSE << >>,
          dispatched |-> << >>, raises |-> ~sendok]
    ELSE [kind |-> "log",
          console |-> <<Received(name, d.message),
                        ConsoleLine("log", LogLevel(d.level),
                                    <<"[", name, "]", " ">> \o d.message)>>,
          bus |-> IF sendok
                  THEN << <<"TELEMETRY", " ", d.level, " ", "[", name, "]:", " ">>
                          \o d.message >>
                  ELSE << >>,
          dispatched |-> << >>, raises |-> ~sendok]

\* The reader of one pipe of child c reads a line the child wrote.
ReadLine(c, stream, line) ==
    /\ child[c].st = "alive"
    /\ <<c, stream>> \notin crashed \cup at_eof
    /\ shutdown # "done"
    /\ \E sendok \in BOOLEAN :
         LET s == child[c].sub
             r == ReadOne(s, line, StreamName(stream), sendok)
         IN  /\ last_heartbeat' = IF r.kind = "heartbeat"
                                  THEN [last_heartbeat EXCEPT ![s] = clock]
                                  ELSE last_heartbeat
             /\ crashed' = IF r.raises THEN crashed \cup {<<c, stream>>} ELSE crashed
             /\ output' = [console |-> r.console, bus |-> r.bus,
                           dispatched |-> r.dispatched]
             /\ event' = IF r.kind = "heartbeat"
                         THEN {<<"heartbeat", s, "reader">>, <<"writer", s, Writer(c)>>}
                         ELSE {<<"line", s, r.kind>>}
    /\ command' = << >>
    /\ UNCHANGED <<at_eof, loader, registry, restart_all_confirmation, shutdown, process, restart_pending, intentionally_stopped, child, clock, tier,
                   tier_start, monitor, restart_tasks, stop_tasks, stop_handled,
                   stopped_in_delay>>

\* ReadEOF with a slip: the reader that finds its pipe closed drops the handle.
ReadEOFMarksDead(c, stream) ==
    /\ child[c].st = "exited"
    /\ <<c, stream>> \notin crashed \cup at_eof
    /\ shutdown # "done"
    /\ at_eof' = at_eof \cup {<<c, stream>>}
    /\ process' = [s \in subsystems |-> IF process[s] = c THEN None ELSE process[s]]
    /\ child' = Collect(child, process', monitor, stop_tasks)
    /\ event' = {<<"eof", child[c].sub, stream>>}
    /\ output' = NoOutput
    /\ command' = << >>
    /\ UNCHANGED <<loader, crashed, registry, restart_all_confirmation, shutdown, last_heartbeat,
                   restart_pending, intentionally_stopped, clock, tier, tier_start, monitor,
                   restart_tasks, stop_tasks, stop_handled, stopped_in_delay>>

\* The reader of one pipe of child c, which has exited, reads the empty line
\* of end-of-stream and returns.
ReadEOF(c, stream) ==
    /\ child[c].st = "exited"
    /\ <<c, stream>> \notin crashed \cup at_eof
    /\ shutdown # "done"
    /\ at_eof' = at_eof \cup {<<c, stream>>}
    /\ event' = {<<"eof", child[c].sub, stream>>}
    /\ output' = NoOutput
    /\ command' = << >>
    /\ UNCHANGED <<loader, crashed, registry, restart_all_confirmation, shutdown, process,
                   last_heartbeat, restart_pending, intentionally_stopped, child, clock, tier,
                   tier_start, monitor, restart_tasks, stop_tasks, stop_handled,
                   stopped_in_delay>>

Next ==
    \/ \E s \in subsystems : StartAllBegin(s)
    \/ StartAllAdvance
    \/ \E c \in Children : SpawnDone(c)
    \/ MonitorScan
    \/ MonitorResume
    \/ \E s \in subsystems : RestartWake(s)
    \/ \E s \in subsystems : Handle(<<"SYSTEM", "CMD", "stop", s>>)
    \/ \E s \in subsystems : Handle(<<"SYSTEM", "CMD", "start", s>>)
    \/ \E s \in subsystems : Handle(<<"SYSTEM", "CMD", "restart", s>>)
    \/ \E t \in stop_tasks : StopResume(t)
    \/ \E t \in stop_tasks : StopTimeout(t)
    \/ Tick
    \/ \E c \in Children : Heartbeat(c)
    \/ \E c \in Children : ChildExit(c)

Spec == Init /\ [][Next]_vars

\* The subsystems the operator starts and restarts and whose children may die: every
\* one but telemetry, whose child carries the operator's commands.
Operated == subsystems \ {"telemetry"}

\* The supervisor while no heartbeat is late (the clock does not advance, so
\* Monitor never takes its timeout branch) and the telemetry child stays up.
NextOps ==
    \/ \E s \in subsystems : StartAllBegin(s)
    \/ StartAllAdvance
    \/ \E c \in Children : SpawnDone(c)
    \/ MonitorScan
    \/ \E s \in subsystems : RestartWake(s)
    \/ \E s \in subsystems : Handle(<<"SYSTEM", "CMD", "stop", s>>)
    \/ \E s \in Operated : Handle(<<"SYSTEM", "CMD", "start", s>>)
    \/ \E s \in Operated : Handle(<<"SYSTEM", "CMD", "restart", s>>)
    \/ \E t \in stop_tasks : StopResume(t)
    \/ \E t \in stop_tasks : StopTimeout(t)
    \/ \E c \in Children : child[c].sub \in Operated /\ ChildExit(c)

SpecOps == InitOps /\ [][NextOps]_vars

\* A supervisor with two subsystems in the first tier and one in each other.
InitBoot == InitWith(<<"science", "drive", "telemetry", "cantelemetry">>)

\* Supervisor.start while start_all runs: Monitor.run has not begun and no
\* command is sent.
NextBoot ==
    \/ \E s \in subsystems : StartAllBegin(s)
    \/ StartAllAdvance
    \/ \E c \in Children : SpawnDone(c)
    \/ \E c \in Children : ChildExit(c)

SpecBoot == InitBoot /\ [][NextBoot]_vars

\* The supervisor left to itself: no operator command, no shutdown.
NextLive ==
    \/ \E s \in subsystems : StartAllBegin(s)
    \/ StartAllAdvance
    \/ \E c \in Children : SpawnDone(c)
    \/ MonitorScan
    \/ MonitorResume
    \/ \E s \in subsystems : RestartWake(s)
    \/ Tick
    \/ \E c \in Children : Heartbeat(c)
    \/ \E c \in Children : ChildExit(c)

\* The event loop runs every task that is ready: start_all goes on, a spawn
\* returns, Monitor.run wakes from its sleep, a _restart task wakes from its
\* sleep, and a child that was sent SIGKILL dies and is reaped.
Fairness ==
    /\ \A s \in AllNames : WF_vars(s \in subsystems /\ StartAllBegin(s))
    /\ WF_vars(StartAllAdvance)
    /\ \A c \in AllChildren : WF_vars(c \in Children /\ SpawnDone(c))
    /\ WF_vars(MonitorScan)
    /\ WF_vars(MonitorResume)
    /\ \A s \in AllNames : WF_vars(s \in subsystems /\ RestartWake(s))
    /\ \A c \in AllChildren :
          WF_vars(c \in Children /\ child[c].st = "killed" /\ ChildExit(c))

SpecLive == Init /\ [][NextLive]_vars /\ Fairness

\* The supervisor with two subsystems left to itself (safety only).
SpecWatch == InitOps /\ [][NextLive]_vars

\* The supervisor with the restart-all dialogue and the shutdown it triggers,
\* while no heartbeat is late.  The telemetry child stays up until it is told
\* to terminate, and the only lifecycle command sent is one that arrives while
\* a confirmation is awaited.
NextShutdown ==
    \/ \E s \in subsystems : StartAllBegin(s)
    \/ StartAllAdvance
    \/ \E c \in Children : SpawnDone(c)
    \/ MonitorScan
    \/ \E s \in subsystems : RestartWake(s)
    \/ \E args \in Commands :
          /\ (Len(args) > 3 /\ args[3] = "stop") => restart_all_confirmation
          /\ Handle(args)
    \/ \E t \in stop_tasks : StopResume(t)
    \/ \E t \in stop_tasks : StopTimeout(t)
    \/ ShutdownEnd
    \/ \E c \in Children :
          /\ child[c].sub \in Operated \/ \E t \in stop_tasks : t.h = c
          /\ ChildExit(c)

SpecShutdown == InitOps /\ [][NextShutdown]_vars

\* The token vectors of the commands an operator sends: stop and start of a
\* subsystem, malformed and disallowed commands, restart-all and the answer `n`.
CommandLines ==
    { <<"SYSTEM", "CMD">>,
      <<"SYSTEM", "CMD", "bogus">>,
      <<"SYSTEM", "CMD", "help">>,
      <<"SYSTEM", "CMD", "stop">>, <<"SYSTEM", "CMD", "stop", "nosuch">>,
      <<"SYSTEM", "CMD", "stop", "telemetry">>, <<"SYSTEM", "CMD", "stop", "drive">>,
      <<"SYSTEM", "CMD", "start">>, <<"SYSTEM", "CMD", "start", "nosuch">>,
      <<"SYSTEM", "CMD", "start", "telemetry">>, <<"SYSTEM", "CMD", "start", "drive">>,
      <<"SYSTEM", "CMD", "restart">>, <<"SYSTEM", "CMD", "restart", "nosuch">>,
      <<"SYSTEM", "CMD", "restart-all">>, <<"SYSTEM", "CMD", "n">> }

\* A supervisor with one subsystem, or with the telemetry subsystem and one more.
InitCmd == Init \/ InitOps

\* The supervisor and its operator while Monitor.run is not scheduled: start_all,
\* the commands above (a restart-all is never confirmed), and the exit of the
\* children of the operated subsystems and of the children told to terminate.
NextCmd ==
    \/ \E s \in subsystems : StartAllBegin(s)
    \/ StartAllAdvance
    \/ \E c \in Children : SpawnDone(c)
    \/ \E args \in CommandLines : Handle(args)
    \/ \E t \in stop_tasks : StopResume(t)
    \/ \E t \in stop_tasks : StopTimeout(t)
    \/ \E c \in Children :
          /\ child[c].sub \in Operated \/ \E t \in stop_tasks : t.h = c
          /\ ChildExit(c)

SpecCmd == InitCmd /\ [][NextCmd]_vars

\* A supervisor with one subsystem whose child writes the lines above on its
\* two pipes, while Monitor.run is not scheduled.
NextReader ==
    \/ \E s \in subsystems : StartAllBegin(s)
    \/ StartAllAdvance
    \/ \E c \in Children : SpawnDone(c)
    \/ Tick
    \/ \E c \in Children, stream \in Streams, line \in Lines : ReadLine(c, stream, line)
    \/ \E c \in Children : ChildExit(c)

SpecReader == Init /\ [][NextReader]_vars

\* The supervisor left to itself, with the stream readers of the children that
\* have exited reaching end-of-stream.
NextEof ==
    \/ \E s \in subsystems : StartAllBegin(s)
    \/ StartAllAdvance
    \/ \E c \in Children : SpawnDone(c)
    \/ MonitorScan
    \/ MonitorResume
    \/ \E s \in subsystems : RestartWake(s)
    \/ Tick
    \/ \E c \in Children : Heartbeat(c)
    \/ \E c \in Children : ChildExit(c)
    \/ \E c \in Children, stream \in Streams : ReadEOF(c, stream)

SpecEof == Init /\ [][NextEof]_vars

\* The longest directory listing load_subsystems is given.
MaxFolders == 3

\* The entries a subprocesses directory may hold: subsystem folders (one of
\* them leaving name and priority to their defaults), a second folder and a
\* disabled folder that declare the name drive, a disabled subsystem, a plain
\* file, folders without entry file, without config file, and with a
\* config file that does not parse, and folders whose config parses to a
\* value that is no object (a list), to an object whose priority is no number
\* (a string, null), and to an object whose args is no mapping (a list).
FolderChoices ==
    { Folder("drive", TRUE, TRUE, "ok", TRUE, "drive", TRUE, 10),
      Folder("drive_old", TRUE, TRUE, "ok", TRUE, "drive", TRUE, 99),
      Folder("drive_off", TRUE, TRUE, "ok", TRUE, "drive", TRUE, -1),
      Folder("science", TRUE, TRUE, "ok", FALSE, "-", FALSE, 0),
      Folder("telemetry", TRUE, TRUE, "ok", TRUE, "telemetry", TRUE, 0),
      Folder("cantelemetry", TRUE, TRUE, "ok", TRUE, "cantelemetry", TRUE, -1),
      Folder("README.md", FALSE, FALSE, "missing", FALSE, "-", FALSE, 0),
      Folder("arm", TRUE, FALSE, "ok", TRUE, "arm", TRUE, 99),
      Folder("camera", TRUE, TRUE, "missing", FALSE, "-", FALSE, 0),
      Folder("gps", TRUE, TRUE, "unparseable", FALSE, "-", FALSE, 0),
      Folder("lidar", TRUE, TRUE, "value", FALSE, "-", FALSE, 0),
      [Folder("imu", TRUE, TRUE, "ok", TRUE, "imu", TRUE, 0)
          EXCEPT !.priority_is_number = FALSE],
      [Folder("radio", TRUE, TRUE, "ok", TRUE, "radio", TRUE, 10)
          EXCEPT !.args_is_mapping = FALSE] }

\* The listings SUBSYSTEMS_DIR.iterdir() may yield: entries in any order, no
\* entry twice.
FolderLists ==
    { fs \in UNION {[1..n -> FolderChoices] : n \in 0..MaxFolders} :
        \A i, j \in 1..Len(fs) : fs[i].dir = fs[j].dir => i = j }

\* Supervisor.__init__ is about to call load_subsystems on a directory with
\* one of the given listings.
InitLoadWith(lists) ==
    /\ registry = << >>
    /\ process = << >>
    /\ last_heartbeat = << >>
    /\ restart_pending = << >>
    /\ intentionally_stopped = << >>
    /\ child = [c \in 1..MaxExtraChildren |-> Unborn]
    /\ clock = TimeUnit
    /\ tier = 1
    /\ tier_start = << >>
    /\ monitor = [pc |-> "sleep", idx |-> 0, now |-> 0, h |-> None]
    /\ restart_tasks = << >>
    /\ stop_tasks = {}
    /\ restart_all_confirmation = FALSE
    /\ shutdown = "idle"
    /\ crashed = {}
    /\ at_eof = {}
    /\ loader \in {[folders |-> fs, loaded |-> << >>, done |-> FALSE, raised |-> FALSE] :
                      fs \in lists}
    /\ output = NoOutput
    /\ command = << >>
    /\ stop_handled = << >>
    /\ stopped_in_delay = << >>
    /\ event = {}

\* self.subsystems = load_subsystems(): the registry of the supervisor is the
\* dict returned, every record with its runtime fields at their defaults.  When
\* load_subsystems raises, so does Supervisor.__init__: there is no
\* supervisor and no registry.
Load ==
    /\ ~loader.done
    /\ LET r     == LoadSubsystems(loader.folders)
           subs  == IF r.raised THEN << >> ELSE r.subs
           names == {subs[i].name : i \in 1..Len(subs)}
       IN  /\ loader' = [loader EXCEPT !.loaded = subs, !.done = TRUE, !.raised = r.raised]
           /\ registry' = NamesOf(subs)
           /\ process' = [s \in names |-> None]
           /\ last_heartbeat' = [s \in names |-> 0]
           /\ restart_pending' = [s \in names |-> FALSE]
           /\ intentionally_stopped' = [s \in names |-> FALSE]
           /\ child' = [c \in 1..(Len(subs) + MaxExtraChildren) |-> Unborn]
           /\ tier_start' = [s \in names |-> "idle"]
           /\ restart_tasks' = [s \in names |-> << >>]
           /\ stop_handled' = [s \in names |-> FALSE]
           /\ event' = IF r.raised THEN {<<"error", "all", "load raised">>}
                       ELSE {<<"loaded", "all", "init">>}
    /\ output' = NoOutput
    /\ command' = << >>
    /\ UNCHANGED <<at_eof, crashed, restart_all_confirmation, shutdown, clock, tier, monitor,
                   stop_tasks>>
    /\ StoppedInDelayNext

NextLoad == Load

InitLoad == InitLoadWith(FolderLists)

SpecLoad == InitLoad /\ [][NextLoad]_vars

\* The most entries the args mapping of a config has.
MaxArgs == 2

\* The values an entry of args may have.
ArgValues ==
    { Bool(TRUE), Bool(FALSE), Null, Number(5000), Number(0), String("fast"),
      List(<<Number(0), Number(1)>>), List(<< >>), List(<<Bool(TRUE), Null>>) }

ArgKeys == {"--port", "--verbose", "--camera"}

\* The args mappings: entries <<key, value>> in the order of the mapping, no
\* key twice.
ArgMappings ==
    { args \in UNION {[1..n -> ArgKeys \X ArgValues] : n \in 0..MaxArgs} :
        \A i, j \in 1..Len(args) : args[i][1] = args[j][1] => i = j }

\* Supervisor.__init__ is about to load a directory with one subsystem whose
\* config has an args mapping.
InitArgs ==
    InitLoadWith({ <<[Folder("drive", TRUE, TRUE, "ok", TRUE, "drive", TRUE, 10)
                        EXCEPT !.args = args]>> : args \in ArgMappings })

SpecArgs == InitArgs /\ [][NextLoad]_vars

(* ------------------------------- claims ------------------------------- *)
\* A ProcessManager.stop call for s is suspended in _terminate.
StopInProgress(s) == \E t \in stop_tasks : t.sub = s

\* C1 as stated: at every instant, also between the await points of a stop,
\* intentionally_stopped implies that process is absent.
C1_StoppedImpliesAbsentAtAnyInstant ==
    \A s \in subsystems : intentionally_stopped[s] => process[s] = None

\* C1 amended: intentionally_stopped implies that process is absent, except
\* while a ProcessManager.stop call for the subsystem is suspended in
\* _terminate (stop sets the flag before it waits for the child).
C1_StoppedImpliesAbsent ==
    \A s \in subsystems :
        intentionally_stopped[s] /\ ~StopInProgress(s) => process[s] = None

\* C1 witness: an operator stop that waited for its child has just returned.
C1_Witness ==
    \E s \in subsystems :
        /\ event = {<<"stopped", s, "stop">>}
        /\ intentionally_stopped[s]
        /\ process[s] = None
        /\ ~StopInProgress(s)

\* C2 as stated: restart_pending and intentionally_stopped are never both true.
C2_NeverPendingAndStopped ==
    \A s \in subsystems : ~(restart_pending[s] /\ intentionally_stopped[s])

\* C2 amended: the two flags become true together in two ways only: a stop
\* sets intentionally_stopped while a restart is pending, or Monitor schedules
\* the restart after a kill during which the subsystem was stopped.  A scan
\* never sets restart_pending for a subsystem it finds intentionally stopped.
C2_PendingAndStoppedOnlyByStopOrKill ==
    [][\A s \in subsystems :
          (~(restart_pending[s] /\ intentionally_stopped[s])
             /\ restart_pending'[s] /\ intentionally_stopped'[s])
          => \/ restart_pending[s] /\ ~intentionally_stopped[s]
             \/ /\ monitor.pc = "kill_wait"
                /\ ScanOrder[monitor.idx] = s
                /\ intentionally_stopped[s]]_vars

\* C2 witness: a restart is pending for an intentionally stopped subsystem.
C2_Witness ==
    \E s \in subsystems : restart_pending[s] /\ intentionally_stopped[s]

\* C3: once `stop <name>` has been handled the subsystem is intentionally
\* stopped and has no live process until a start or restart command arrives.
C3_StopSticks ==
    \A s \in subsystems :
        stop_handled[s] =>
            intentionally_stopped[s] /\ ~HasLiveProcess(process, child, s)

\* C4: every child that is alive (and whose handle start has received) is
\* referenced by the process field of its subsystem's record.
C4_NoOrphan ==
    \A c \in Children :
        Running(child, c) => \E s \in subsystems : process[s] = c

\* The start(s) call that start_all gathered has returned.
StartReturned(s) == tier_start[s] \in {"ok", "failed", "returned"}

\* C5: during start_all, when the start of a subsystem of a later tier has
\* begun, the start of every subsystem of an earlier tier has returned.
C5_TierOrder ==
    \A a \in subsystems, b \in subsystems :
        TierOf(a) < TierOf(b) /\ tier_start[b] # "idle" => StartReturned(a)

\* C5 witness: a start of a later tier is suspended in its spawn, after two
\* starts of the first tier returned.
C5_Witness ==
    \E a \in subsystems, b \in subsystems, c \in subsystems :
        /\ a # b /\ TierOf(a) = 1 /\ TierOf(b) = 1 /\ TierOf(c) > 1
        /\ tier_start[a] = "ok" /\ tier_start[b] = "ok"
        /\ tier_start[c] = "running"

\* C6: during start_all, once the spawn of a subsystem failed, no subsystem of
\* a later tier is started.
C6_NoStartAfterFailedLaunch ==
    \A a \in subsystems, b \in subsystems :
        TierOf(a) < TierOf(b) /\ tier_start[a] = "failed" => tier_start[b] = "idle"

\* Monitor.run resumes from the kill it awaited.
KillReturns == monitor.pc = "kill_wait" /\ monitor' # monitor

\* C7: Monitor's kill of a timed-out subsystem comes before the scheduling of
\* its restart, and the scheduling before the start: the step that kills
\* leaves the handle in place and schedules nothing; the step in which kill
\* returns leaves process absent, restart_pending set and a restart task
\* asleep; a restart for a timeout is scheduled in no other step; and a restart
\* task invokes start only in the step that clears restart_pending, for a
\* subsystem that is not intentionally stopped.
C7_KillThenScheduleThenStart ==
    [][\A s \in subsystems :
          /\ <<"kill", s, "monitor">> \in event' =>
                /\ monitor'.pc = "kill_wait" /\ ScanOrder[monitor'.idx] = s
                /\ process[s] # None /\ monitor'.h = process[s]
                /\ process'[s] = process[s]
                /\ child'[process[s]].st = "killed"
                /\ <<"schedule", s, "timeout">> \notin event'
          /\ KillReturns /\ ScanOrder[monitor.idx] = s =>
                /\ process'[s] = None
                /\ restart_pending'[s]
                /\ restart_tasks'[s] # << >>
                /\ ~restart_pending[s] => <<"schedule", s, "timeout">> \in event'
          /\ <<"schedule", s, "timeout">> \in event' =>
                KillReturns /\ ScanOrder[monitor.idx] = s
          /\ <<"start", s, "monitor">> \in event' =>
                /\ restart_tasks[s] # << >>
                /\ restart_pending[s] /\ ~restart_pending'[s]
                /\ ~intentionally_stopped[s]]_vars

\* C7 witness: the restart task scheduled after a heartbeat timeout has just
\* cleared restart_pending and invoked start.
C7_Witness ==
    \E s \in subsystems :
        /\ <<"wake", s, "timeout">> \in event
        /\ <<"start", s, "monitor">> \in event
        /\ ~restart_pending[s]

\* The time since the last heartbeat of s.
Elapsed(s) == clock - last_heartbeat[s]

\* s has a live process and is not intentionally stopped.
Watched(s) == HasLiveProcess(process, child, s) /\ ~intentionally_stopped[s]

\* C8: Monitor kills only a subsystem that is live, not intentionally stopped
\* and whose heartbeat is older than HEARTBEAT_TIMEOUT by the scan's `now`; a
\* scan neither kills nor schedules a restart for a watched subsystem whose
\* elapsed time is at most HEARTBEAT_TIMEOUT, and it kills the first watched
\* subsystem (in scan order) whose elapsed time is greater.
C8_StrictTimeout ==
    [][/\ \A s \in subsystems :
             <<"kill", s, "monitor">> \in event' =>
                 /\ Watched(s)
                 /\ monitor'.now - last_heartbeat[s] > HEARTBEAT_TIMEOUT
       /\ <<"scan", "all", "monitor">> \in event' =>
             \A i \in 1..Len(ScanOrder) :
                 LET s == ScanOrder[i] IN
                 /\ Watched(s) /\ Elapsed(s) <= HEARTBEAT_TIMEOUT =>
                       /\ <<"kill", s, "monitor">> \notin event'
                       /\ \A why \in {"absent", "exited", "timeout"} :
                              <<"schedule", s, why>> \notin event'
                 /\ ( /\ Watched(s) /\ Elapsed(s) > HEARTBEAT_TIMEOUT
                      /\ \A j \in 1..(i - 1) :
                             ~(Watched(ScanOrder[j])
                               /\ Elapsed(ScanOrder[j]) > HEARTBEAT_TIMEOUT) )
                       => <<"kill", s, "monitor">> \in event']_vars

\* C8 witness: a scan has just passed over a watched subsystem whose last
\* heartbeat is exactly HEARTBEAT_TIMEOUT old, and left it alone.
C8_Witness ==
    \E s \in subsystems :
        /\ event = {<<"scan", "all", "monitor">>}
        /\ Watched(s) /\ child[process[s]].st = "alive"
        /\ Elapsed(s) = HEARTBEAT_TIMEOUT
        /\ ~restart_pending[s]

\* s is not intentionally stopped and has no process, or one that has exited,
\* and no start call for it is suspended in its spawn.
Down(s) ==
    /\ s \in subsystems
    /\ ~intentionally_stopped[s]
    /\ ~HasLiveProcess(process, child, s)
    /\ \A c \in Children : ~(child[c].st = "spawning" /\ child[c].sub = s)

\* ProcessManager.start was invoked for s in the last step, by start_all or by
\* a restart task.
StartInvoked(s) ==
    <<"start", s, "start_all">> \in event \/ <<"start", s, "monitor">> \in event

\* C9: with the Monitor loop and the restart tasks scheduled fairly and no
\* operator command, a subsystem that is not intentionally stopped and has no
\* live process (and no start under way) eventually has start invoked for it.
C9_DownLeadsToStart ==
    \A s \in AllNames : Down(s) ~> StartInvoked(s)

\* C9 witness: a child has exited, Monitor has scheduled its restart, and the
\* restart task has just invoked start.
C9_Witness ==
    \E s \in subsystems :
        /\ <<"wake", s, "exited">> \in event
        /\ <<"start", s, "monitor">> \in event

\* C10: after a start call whose spawn failed, whoever made it, process is
\* absent and intentionally_stopped is false, so that Monitor's next scan
\* schedules a restart.
C10_FailedStartIsRetried ==
    \A s \in subsystems :
        \A by \in {"start_all", "monitor", "start", "restart"} :
            <<"spawn_fail", s, by>> \in event =>
                process[s] = None /\ ~intentionally_stopped[s]

\* C11 as stated: a record never references a handle whose child has exited.
C11_NeverReferencesExited ==
    \A s \in subsystems : process[s] # None => Running(child, process[s])

\* C11 amended: a record references nothing, or the handle of a child of its
\* own subsystem that start has received: live, or exited and not yet replaced
\* or cleared.  The exited handle is what Monitor's scan looks for: a complete
\* scan that finds one on a subsystem that is not intentionally stopped leaves
\* restart_pending set.
C11_HandleLiveOrAwaitingRestart ==
    /\ [](\A s \in subsystems :
            process[s] # None =>
                /\ child[process[s]].st \in {"alive", "killed", "exited"}
                /\ child[process[s]].sub = s)
    /\ [][(<<"scan", "all", "monitor">> \in event' /\ monitor'.pc = "sleep") =>
            \A s \in subsystems :
                ( /\ ~intentionally_stopped[s]
                  /\ process[s] # None
                  /\ ~Running(child, process[s]) ) => restart_pending'[s]]_vars

\* C11 witness: a child exited on its own, the record still references its
\* handle, and Monitor's scan has just scheduled the restart.
C11_Witness ==
    \E s \in subsystems :
        /\ <<"schedule", s, "exited">> \in event
        /\ process[s] # None
        /\ child[process[s]].st = "exited"
        /\ restart_pending[s]

\* The callers of ProcessManager.start.
Callers == {"start_all", "monitor", "start", "restart"}

\* C12 as stated: a child that start has just spawned, and that has emitted
\* no heartbeat yet, has last_heartbeat = 0.
C12_FreshChildHasNoHeartbeat ==
    \A s \in subsystems : \A by \in Callers :
        <<"spawned", s, by>> \in event => last_heartbeat[s] = 0

\* C12 amended: start sets last_heartbeat to the time of the spawn, so a record
\* that holds a handle has last_heartbeat > 0 whether or not its child has
\* emitted a heartbeat; last_heartbeat = 0 only on a record with no handle.
C12_SpawnStampsHeartbeat ==
    /\ [](\A s \in subsystems : process[s] # None => last_heartbeat[s] > 0)
    /\ [][\A s \in subsystems : \A by \in Callers :
             <<"spawned", s, by>> \in event' =>
                 last_heartbeat'[s] = clock /\ process'[s] # None]_vars

\* C12 witness: a spawn has just returned after the clock advanced, and
\* last_heartbeat is the time of the spawn.
C12_Witness ==
    \E s \in subsystems : \E by \in Callers :
        /\ <<"spawned", s, by>> \in event
        /\ clock > TimeUnit
        /\ last_heartbeat[s] = clock
        /\ process[s] # None /\ child[process[s]].st = "alive"

\* C13: last_heartbeat never decreases: start and every HEARTBEAT line read,
\* from whichever pipe and in whatever order, store the current loop.time().
C13_HeartbeatMonotone ==
    [][\A s \in subsystems :
          /\ last_heartbeat'[s] >= last_heartbeat[s]
          /\ <<"heartbeat", s, "reader">> \in event' => last_heartbeat'[s] = clock]_vars

\* C13 witness: a HEARTBEAT line read after the clock advanced has just moved
\* last_heartbeat forward.
C13_Witness ==
    \E s \in subsystems :
        /\ <<"heartbeat", s, "reader">> \in event
        /\ clock > TimeUnit
        /\ last_heartbeat[s] = clock

\* C14: a start call made (by start_all or by a restart task; the start command
\* refuses a live subsystem itself) while the record holds a live child changes
\* nothing: no child is spawned, no spawn fails, and process, last_heartbeat
\* and intentionally_stopped keep their values, as does restart_pending apart
\* from the restart task's own clearing of it.
C14_StartOnLiveIsNoOp ==
    [][\A s \in subsystems : \A by \in {"start_all", "monitor"} :
          (<<"start", s, by>> \in event' /\ HasLiveProcess(process, child, s)) =>
              /\ process' = process
              /\ child' = child
              /\ last_heartbeat' = last_heartbeat
              /\ intentionally_stopped' = intentionally_stopped
              /\ restart_pending' = IF by = "monitor"
                                    THEN [restart_pending EXCEPT ![s] = FALSE]
                                    ELSE restart_pending
              /\ <<"spawn_fail", s, by>> \notin event']_vars

\* C14 witness: a restart task has just called start on a subsystem that an
\* operator start had brought back in the meantime; the live child is still
\* the record's process and nothing is being spawned.
C14_Witness ==
    \E s \in subsystems :
        /\ <<"start", s, "monitor">> \in event
        /\ HasLiveProcess(process, child, s)
        /\ \A c \in Children : child[c].st # "spawning"

\* A second stop(s) in the given record state returns at once, signals nothing
\* and changes neither process nor intentionally_stopped (it never writes
\* restart_pending or last_heartbeat).
SecondStopIsNoOp(s, proc, ch, flag) ==
    StopCall(s, proc, ch, flag) = [process |-> proc, flag |-> flag, out |-> "done"]

\* C15: stop(S); stop(S) leaves the record as stop(S) does.  Whenever a stop
\* returns without waiting, and whenever a stop command that waited for its
\* child returns, a second stop in the state it left is a no-op.
C15_StopTwiceIsStopOnce ==
    /\ [](\A s \in subsystems :
            LET r == StopCall(s, process, child, intentionally_stopped) IN
            r.out = "done" => SecondStopIsNoOp(s, r.process, child, r.flag))
    /\ [][\A s \in subsystems :
             <<"stopped", s, "stop">> \in event' =>
                 SecondStopIsNoOp(s, process', child', intentionally_stopped')]_vars

\* C15 witness: a stop that terminated a child has returned and a second stop
\* would find nothing to do.
C15_Witness ==
    \E s \in subsystems :
        /\ event = {<<"stopped", s, "stop">>}
        /\ stop_handled[s]
        /\ SecondStopIsNoOp(s, process, child, intentionally_stopped)

\* C16: when ProcessManager.stop(sub) returns, called by the stop command or by
\* the stop step of the restart command, whatever the record held before,
\* intentionally_stopped is true and process is absent.
C16_StopReturnsStoppedAndAbsent ==
    \A s \in subsystems : \A kind \in {"stop", "restart"} :
        <<"stopped", s, kind>> \in event =>
            intentionally_stopped[s] /\ process[s] = None

\* C17: ProcessManager.kill sends SIGKILL at once, with no graceful step, and
\* until the child is reaped leaves the record as it is; when it returns,
\* process is absent.  It writes neither intentionally_stopped nor
\* last_heartbeat of any record, nor the process of another record, and
\* restart_pending changes only where Monitor schedules a restart; called on a
\* record without a handle it sends nothing and changes nothing.
C17_KillFrame ==
    /\ [](\A s \in subsystems :
            process[s] = None =>
                KillCall(s, process, child) = [child |-> child, sent |-> FALSE])
    /\ [][\A s \in subsystems :
             /\ <<"kill", s, "monitor">> \in event' =>
                   /\ process[s] # None
                   /\ child'[process[s]].st = "killed"
                   /\ process'[s] = process[s]
                   /\ restart_pending'[s] = restart_pending[s]
                   /\ intentionally_stopped' = intentionally_stopped
                   /\ last_heartbeat' = last_heartbeat
                   /\ stop_tasks' = stop_tasks
             /\ (KillReturns /\ ScanOrder[monitor.idx] = s) =>
                   /\ process'[s] = None
                   /\ \A o \in subsystems \ {s} : process'[o] = process[o]
                   /\ intentionally_stopped' = intentionally_stopped
                   /\ last_heartbeat' = last_heartbeat
                   /\ \A o \in subsystems \ {s} :
                          restart_pending'[o] # restart_pending[o] =>
                              \E why \in {"absent", "exited"} :
                                  <<"schedule", o, why>> \in event']_vars

\* C17 witness: kill has just returned for one subsystem while another one
\* keeps its live child.
C17_Witness ==
    \E s \in subsystems, o \in subsystems :
        /\ o # s
        /\ <<"schedule", s, "timeout">> \in event
        /\ process[s] = None
        /\ ~intentionally_stopped[s]
        /\ HasLiveProcess(process, child, o)

\* Supervisor.shutdown was called in the last step and began to stop the children.
ShutdownBegan == <<"shutdown", "all", "begin">> \in event

\* C18: while a restart-all confirmation is awaited, the next command handled,
\* whatever its shape, clears the flag, and it triggers the shutdown exactly
\* when its third token is `y` in either case.
C18_NextCommandIsConfirmation ==
    [][\A args \in Commands :
          (restart_all_confirmation /\ shutdown = "idle" /\ Handle(args)) =>
              /\ ~restart_all_confirmation'
              /\ ShutdownBegan' <=> (Len(args) >= 3 /\ Lower(args[3]) = "y")]_vars

\* C19 as stated: `restart-all` followed by `restart-all y` runs the shutdown.
C19_RestartAllYShutsDown ==
    [][(restart_all_confirmation /\ shutdown = "idle"
          /\ Handle(<<"SYSTEM", "CMD", "restart-all", "y">>)) => ShutdownBegan']_vars

\* C19 amended: the answer is the third token.  After `restart-all`, the
\* commands `restart-all y` and `restart-all n` both cancel: the flag is
\* cleared and no shutdown runs; the commands `y` and `Y` clear the flag and
\* run the shutdown.
C19_ThirdTokenAnswers ==
    [][(restart_all_confirmation /\ shutdown = "idle") =>
          /\ \A args \in { <<"SYSTEM", "CMD", "restart-all", "y">>,
                           <<"SYSTEM", "CMD", "restart-all", "n">> } :
                 Handle(args) =>
                     /\ ~restart_all_confirmation'
                     /\ shutdown' = "idle"
                     /\ event' = {<<"cancelled", "all", "restart-all">>}
          /\ \A args \in { <<"SYSTEM", "CMD", "y">>, <<"SYSTEM", "CMD", "Y">> } :
                 Handle(args) =>
                     /\ ~restart_all_confirmation'
                     /\ shutdown' = "stop_all"
                     /\ ShutdownBegan']_vars

\* C19 witness: the confirmation `y` has just started the shutdown.
C19_Witness ==
    /\ ShutdownBegan
    /\ shutdown = "stop_all"
    /\ ~restart_all_confirmation

\* C20: when Supervisor.shutdown has completed no subsystem has a live child
\* process, and no child is spawned once shutdown has marked stopping.
C20_ShutdownLeavesNoChild ==
    /\ [](shutdown = "done" =>
            \A s \in subsystems : ~HasLiveProcess(process, child, s))
    /\ [][shutdown # "idle" =>
            \A c \in Children :
                child'[c].st = "spawning" => child[c].st = "spawning"]_vars

\* C21: once shutdown has marked the supervisor as stopping, no SYSTEM CMD line
\* read from a child is scheduled for handling any more: no command is handled
\* that was not already being handled when shutdown began.
C21_NoCommandOnceStopping ==
    [][shutdown # "idle" => command' = << >>]_vars

\* The level and the message of a frame `TELEMETRY <level> [supervisor]: <message>`.
FrameLevel(frame) == frame[3]

ReplyMessage(frame) == SubSeq(frame, 7, Len(frame))

\* The step sent one reply, at the given level.
OneReply(out, level) == Len(out.bus) = 1 /\ FrameLevel(out.bus[1]) = level

\* No field of any subsystem record changes and no child is signalled or spawned.
RecordsUntouched ==
    /\ process' = process
    /\ intentionally_stopped' = intentionally_stopped
    /\ restart_pending' = restart_pending
    /\ last_heartbeat' = last_heartbeat
    /\ child' = child
    /\ stop_tasks' = stop_tasks

Malformed ==
    { <<"SYSTEM", "CMD">>,
      <<"SYSTEM", "CMD", "bogus">>,
      <<"SYSTEM", "CMD", "stop">>, <<"SYSTEM", "CMD", "stop", "nosuch">>,
      <<"SYSTEM", "CMD", "stop", "telemetry">>,
      <<"SYSTEM", "CMD", "start">>, <<"SYSTEM", "CMD", "start", "nosuch">>,
      <<"SYSTEM", "CMD", "restart">>, <<"SYSTEM", "CMD", "restart", "nosuch">> }

\* args is handled and is malformed or disallowed: one of the above, or the
\* start of a registered subsystem that has a live process.
Refused(args) ==
    /\ command' = args
    /\ \/ args \in Malformed
       \/ /\ Len(args) = 4 /\ args[3] = "start" /\ args[4] \in subsystems
          /\ HasLiveProcess(process, child, args[4])

\* C23 as stated: every malformed or disallowed command is answered with one
\* reply at ERROR and changes no subsystem record and not the confirmation
\* flag, whatever the value of the flag.
C23_RefusedChangesNothing ==
    [][\A args \in CommandLines :
          Refused(args) =>
              /\ OneReply(output', "ERROR")
              /\ RecordsUntouched
              /\ restart_all_confirmation' = restart_all_confirmation]_vars

\* C23 amended: a malformed or disallowed command never changes a subsystem
\* record.  While no restart-all confirmation is awaited it is answered with
\* one reply at ERROR and the flag stays false.  While a confirmation is
\* awaited, only the command without a subcommand is answered at ERROR and
\* leaves the flag set; any other one is taken as the answer to the
\* confirmation: the flag is cleared and the one reply is `Restart-all
\* cancelled` at INFO.
C23_RefusedUnlessConfirming ==
    [][\A args \in CommandLines :
          Refused(args) =>
              /\ RecordsUntouched
              /\ Len(output'.bus) = 1
              /\ (~restart_all_confirmation \/ Len(args) < 3) =>
                    /\ FrameLevel(output'.bus[1]) = "ERROR"
                    /\ restart_all_confirmation' = restart_all_confirmation
              /\ (restart_all_confirmation /\ Len(args) >= 3) =>
                    /\ FrameLevel(output'.bus[1]) = "INFO"
                    /\ ReplyMessage(output'.bus[1]) = <<"Restart-all cancelled">>
                    /\ ~restart_all_confirmation']_vars

\* C23 witness: a command for a subsystem that does not exist has just been
\* answered at ERROR while a subsystem is intentionally stopped.
C23_Witness ==
    /\ event = {<<"error", "all", "not found">>}
    /\ OneReply(output, "ERROR")
    /\ ~restart_all_confirmation
    /\ \E s \in subsystems : intentionally_stopped[s] /\ process[s] = None

\* The last step sent the reply `<word> <name>` at the given level.
Replied(level, word, s) ==
    \E i \in 1..Len(output.bus) :
        /\ FrameLevel(output.bus[i]) = level
        /\ ReplyMessage(output.bus[i]) = <<word, " ", s>>

\* C24: the reply `Restarted <name>` at WARNING is sent only on full success,
\* when the subsystem has a live process; when the spawn of the start step of
\* a restart command, or of a start command, fails, the operator gets one
\* reply at ERROR and no success reply.
C24_SuccessReplyOnlyOnSuccess ==
    \A s \in subsystems :
        /\ Replied("WARNING", "Restarted", s) => HasLiveProcess(process, child, s)
        /\ \A by \in {"start", "restart"} :
               <<"spawn_fail", s, by>> \in event =>
                   /\ OneReply(output, "ERROR")
                   /\ ~Replied("WARNING", "Restarted", s)
                   /\ ~Replied("WARNING", "Started", s)

\* C25: `start <name>` on a subsystem without a live process (in particular
\* one the operator stopped: intentionally_stopped, process absent) calls
\* start, and when the spawn succeeds the record holds a live process and
\* intentionally_stopped is false, so that Monitor's scan checks the subsystem
\* again, and `Started <name>` is replied; `start <name>` on a subsystem with a
\* live process replies one error and spawns nothing.
C25_StartAfterStop ==
    [][\A s \in subsystems :
          /\ (command' = <<"SYSTEM", "CMD", "start", s>>
                /\ ~HasLiveProcess(process, child, s)) =>
                 \/ <<"spawn_fail", s, "start">> \in event'
                 \/ \E c \in Children :
                        /\ child[c].st = "unborn"
                        /\ child'[c] = [st |-> "spawning", sub |-> s, by |-> "start"]
          /\ <<"spawned", s, "start">> \in event' =>
                 /\ HasLiveProcess(process', child', s)
                 /\ child'[process'[s]].st = "alive"
                 /\ ~intentionally_stopped'[s]
                 /\ last_heartbeat'[s] = clock
                 /\ Replied("WARNING", "Started", s)'
          /\ (command' = <<"SYSTEM", "CMD", "start", s>>
                /\ HasLiveProcess(process, child, s)) =>
                 /\ OneReply(output', "ERROR")
                 /\ RecordsUntouched
                 /\ event' = {<<"error", s, "start">>}]_vars

\* C25 witness: `start` has just been handled for a subsystem the operator had
\* stopped (intentionally_stopped, process absent) and its child is being spawned.
C25_Witness ==
    \E s \in subsystems :
        /\ command = <<"SYSTEM", "CMD", "start", s>>
        /\ stop_tasks = {}
        /\ intentionally_stopped[s]
        /\ process[s] = None
        /\ \E c \in Children : child[c] = [st |-> "spawning", sub |-> s, by |-> "start"]

\* The logger calls among the lines written to the console.
IsLoggerCall(entry) == entry.via = "log"

Logged(console) == SelectSeq(console, IsLoggerCall)

Undecodable == {line \in Lines : line.json # "object"}

\* C27: a line that does not decode as a JSON object gets msg = the line and
\* level = ERROR when it was read from the child's stderr, INFO when it was
\* read from stdout; so whenever the reader of the stderr pipe logs and
\* publishes such a line, it does so at ERROR.
C27_StderrPlainIsError ==
    [][\A c \in Children : \A line \in Undecodable :
          (ReadLine(c, "stderr", line) /\ output'.bus # << >>
             /\ <<"line", child[c].sub, "log">> \in event')
          => /\ FrameLevel(output'.bus[1]) = "ERROR"
             /\ Logged(output'.console) =
                  <<ConsoleLine("log", "ERROR",
                                <<"[", child[c].sub, "]", " ">> \o Strip(line.raw))>>]_vars

\* C28: handling a structured line whose msg begins with `JSON ` publishes
\* exactly one frame, `TELEMETRY <msg>` with the `JSON ` prefix kept, and
\* writes nothing to the console.
C28_JsonFrameOnly ==
    [][\A s \in subsystems :
          (<<"line", s, "json">> \in event' /\ output'.bus # << >>)
          => /\ Len(output'.bus) = 1
             /\ SubSeq(output'.bus[1], 1, 4) = <<"TELEMETRY", " ", "JSON", " ">>
             /\ output'.console = << >>]_vars

\* C29: a failure while one line is handled (the publisher's send raising, a
\* structured line whose msg or level is not a string) does not end the
\* stream reader: no exception leaves a reader task, so the reader of each
\* pipe of a live child is still reading and a later HEARTBEAT on that pipe
\* still updates last_heartbeat.
C29_ReaderSurvives ==
    \A c \in Children : \A stream \in Streams :
        child[c].st = "alive" => <<c, stream>> \notin crashed

\* A folder load_subsystems accepts: a directory with an entry file, a config
\* that parses, and a priority that is not negative.
Accepted(f) ==
    /\ f.is_dir /\ f.entry /\ f.config = "ok"
    /\ (f.has_priority => f.priority_is_number) /\ f.args_is_mapping
    /\ (IF f.has_priority THEN f.priority ELSE 5) >= 0

DeclaredName(f) == IF f.has_name THEN f.name ELSE f.dir

\* C30: after load_subsystems has returned the registry holds exactly one record for each
\* distinct name among the directories with an entry file, a parseable
\* config and priority >= 0: a directory with priority < 0 contributes no
\* record, no two records share a name, and of two directories that declare
\* the same name the first one encountered is kept.
C30_RegistryAfterLoad ==
    (loader.done /\ ~loader.raised) =>
        LET fs     == loader.folders
            subs   == loader.loaded
            good   == {i \in 1..Len(fs) : Accepted(fs[i])}
            First(n) == CHOOSE i \in good :
                           /\ DeclaredName(fs[i]) = n
                           /\ \A j \in good : DeclaredName(fs[j]) = n => i <= j
        IN  /\ {subs[k].name : k \in 1..Len(subs)} = {DeclaredName(fs[i]) : i \in good}
            /\ \A k, l \in 1..Len(subs) : subs[k].name = subs[l].name => k = l
            /\ \A k \in 1..Len(subs) :
                  /\ subs[k].path = fs[First(subs[k].name)].dir
                  /\ subs[k].priority_rank >= 0
            /\ \A i \in 1..Len(fs) :
                  (fs[i].has_priority /\ fs[i].priority < 0)
                  => \A k \in 1..Len(subs) : subs[k].path # fs[i].dir
            /\ registry = NamesOf(subs)
            /\ DOMAIN process = {DeclaredName(fs[i]) : i \in good}

\* C30 witness: the listing held two accepted folders that declare the same
\* name and a disabled one; the record of the first is in the registry.
C30_Witness ==
    /\ loader.done /\ ~loader.raised
    /\ \E i, j \in 1..Len(loader.folders) :
          /\ i < j
          /\ Accepted(loader.folders[i]) /\ Accepted(loader.folders[j])
          /\ DeclaredName(loader.folders[i]) = DeclaredName(loader.folders[j])
          /\ \E k \in 1..Len(loader.loaded) : loader.loaded[k].path = loader.folders[i].dir
    /\ \E i \in 1..Len(loader.folders) :
          loader.folders[i].is_dir /\ loader.folders[i].priority < 0
    /\ registry = <<"drive">>

\* The tokens one entry of an args mapping stands for.
Tokens(entry) ==
    LET key == entry[1]
        value == entry[2]
    IN  CASE value.kind = "bool" -> IF value.b THEN <<key>> ELSE << >>
          [] value.kind = "null" -> << >>
          [] value.kind = "list" ->
               [j \in 1..(2 * Len(value.items)) |->
                   IF j % 2 = 1 THEN key ELSE Str(value.items[j \div 2])]
          [] OTHER -> <<key, Str(value)>>

\* The number of tokens the entries before entry i stand for.
RECURSIVE TokensBefore(_, _)
TokensBefore(args, i) ==
    IF i <= 1 THEN 0 ELSE TokensBefore(args, i - 1) + Len(Tokens(args[i - 1]))

\* C31: flatten_args yields, in the key order of the mapping, for each entry:
\* the flag alone for a true bool, nothing for a false bool and for null, the
\* pair flag, str(element) once per element in list order for a list, and
\* flag, str(value) for any other scalar; the empty mapping yields the empty
\* sequence.
C31_FlattenArgs ==
    (loader.done /\ ~loader.raised /\ Len(loader.loaded) = 1) =>
        LET args == loader.folders[1].args
            out  == loader.loaded[1].extra_args
        IN  /\ Len(out) = TokensBefore(args, Len(args) + 1)
            /\ \A i \in 1..Len(args) :
                  SubSeq(out, TokensBefore(args, i) + 1, TokensBefore(args, i + 1))
                    = Tokens(args[i])
            /\ args = << >> => out = << >>

\* C31 witness: a mapping with a list of two elements followed by a true
\* bool has been flattened.
C31_Witness ==
    /\ loader.done /\ ~loader.raised /\ Len(loader.loaded) = 1
    /\ loader.folders[1].args =
         << <<"--camera", List(<<Number(0), Number(1)>>)>>, <<"--verbose", Bool(TRUE)>> >>
    /\ loader.loaded[1].extra_args = <<"--camera", "0", "--camera", "1", "--verbose">>

\* C32: a malformed per-subsystem config never aborts the load: whatever the
\* shape of a config (unparseable text, a top-level value that is no object,
\* a priority that is no number, an args that is no mapping), load_subsystems
\* returns, and the registry holds every subsystem whose folder is valid.
C32_MalformedConfigSkipped ==
    loader.done =>
        /\ ~loader.raised
        /\ subsystems = {DeclaredName(loader.folders[i]) :
                            i \in {k \in 1..Len(loader.folders) : Accepted(loader.folders[k])}}

\* The _restart task of s ends its sleep in this step.
Wakes(s) == \E why \in {"absent", "exited", "timeout"} : <<"wake", s, why>> \in event'

\* C33 as stated: if intentionally_stopped became true at any moment while
\* the restart task was waiting out RESTART_DELAY, then at the end of the delay
\* the task clears restart_pending and does not call ProcessManager.start.
C33_StoppedInDelayAborts ==
    [][\A s \in subsystems :
          (Wakes(s) /\ stopped_in_delay[s])
          => restart_pending'[s] = FALSE /\ <<"start", s, "monitor">> \notin event']_vars

\* C33 amended: the task looks at intentionally_stopped once, when its delay
\* ends.  It always clears restart_pending; when the flag is set at that
\* moment it calls no start and leaves process and every child alone, and
\* when the flag is clear (never set, or set and cleared again by a start
\* during the delay) it calls start.
C33_StoppedAtWakeAborts ==
    [][\A s \in subsystems :
          Wakes(s) =>
            /\ restart_pending'[s] = FALSE
            /\ intentionally_stopped[s] =>
                  /\ <<"start", s, "monitor">> \notin event'
                  /\ process' = process /\ child' = child
            /\ ~intentionally_stopped[s] => <<"start", s, "monitor">> \in event']_vars

\* C33 witness: a restart task whose subsystem was stopped during the delay
\* has just ended: the flag is still set, nothing is pending, nothing started.
C33_Witness ==
    \E s \in subsystems :
        /\ \E why \in {"absent", "exited", "timeout"} : event = {<<"wake", s, why>>}
        /\ intentionally_stopped[s] /\ stop_handled[s]
        /\ ~restart_pending[s]
        /\ process[s] = None

\* C34: restart_pending of a subsystem is true exactly while one restart task
\* for it is waiting out RESTART_DELAY: there are never two restart tasks for
\* the same subsystem, however many scans find it absent or exited during the
\* delay, and the flag is false again in the step in which the task wakes,
\* whether it calls start or abandons the relaunch.
C34_PendingIffOneTask ==
    /\ [](\A s \in subsystems :
            /\ Len(restart_tasks[s]) <= 1
            /\ restart_pending[s] <=> restart_tasks[s] # << >>)
    /\ [][\A s \in subsystems :
             /\ Wakes(s) => ~restart_pending'[s] /\ restart_tasks'[s] = << >>
             /\ (restart_pending[s] /\ ~Wakes(s)) =>
                   /\ restart_tasks'[s] = restart_tasks[s]
                   /\ <<"schedule", s, "absent">> \notin event'
                   /\ <<"schedule", s, "exited">> \notin event'
                   /\ <<"schedule", s, "timeout">> \notin event']_vars

\* C34 witness: a scan has just passed over a subsystem that is absent while
\* its restart is pending, and has scheduled nothing.
C34_Witness ==
    \E s \in subsystems :
        /\ event = {<<"scan", "all", "monitor">>}
        /\ process[s] = None /\ ~intentionally_stopped[s]
        /\ restart_pending[s] /\ Len(restart_tasks[s]) = 1

\* Who calls ProcessManager.stop: the stop command, the restart command, stop_all.
StopKinds == {"stop", "restart", "shutdown"}

\* C35: in a graceful stop terminate is sent before any hard kill: the child
\* that is hard-killed is the one the stop sent terminate to and has waited
\* for; the hard kill is issued exactly when that child has not exited at the
\* end of the grace budget (a child that exits within the budget is not
\* hard-killed), and in both cases the stop returns, with process absent.
C35_TerminateThenKill ==
    [][\A s \in subsystems : \A kind \in StopKinds :
          /\ <<"kill", s, kind>> \in event' =>
                \E t \in stop_tasks :
                   /\ t.sub = s /\ t.kind = kind /\ t.pc = "term_wait"
                   /\ Running(child, t.h)
                   /\ child'[t.h].st = "killed"
                   /\ \A c \in Children \ {t.h} :
                         child'[c].st = "killed" => child[c].st = "killed"
          /\ (\E t \in stop_tasks \ stop_tasks' :
                 t.sub = s /\ t.kind = kind /\ child[t.h].st = "exited")
             => /\ <<"kill", s, kind>> \notin event'
                /\ <<"stopped", s, kind>> \in event'
          /\ <<"stopped", s, kind>> \in event' => process'[s] = None
          /\ <<"error", s, kind>> \notin event']_vars

\* C36: Supervisor.shutdown goes through its steps in order: stopping is
\* marked, stop_all returns, every other outstanding task is cancelled, the
\* publisher socket and the context are closed, the completion line is
\* logged.  Nothing is published once the socket is closed, and a shutdown
\* call made while or after the first one runs returns at once and repeats
\* no step.
C36_ShutdownOrder ==
    /\ [][shutdown' # shutdown =>
             <<shutdown, shutdown'>> \in {<<"idle", "stop_all">>, <<"stop_all", "done">>,
                                          <<"stop_all", "failed">>}]_vars
    /\ [][(shutdown # "done" /\ shutdown' = "done") =>
             /\ \A t \in stop_tasks : t.kind # "shutdown"
             /\ stop_tasks' = {}
             /\ \A s \in subsystems : restart_tasks'[s] = << >>
             /\ monitor'.pc = "cancelled"
             /\ \A c \in Children : child'[c].st # "spawning"
             /\ output'.bus = << >>
             /\ output'.console = <<ShutdownComplete>>]_vars
    /\ [][shutdown = "done" =>
             output'.bus = << >> /\ output'.dispatched = << >> /\ command' = << >>]_vars
    /\ [][(<<"shutdown", "all", "begin">> \in event') => shutdown = "idle"]_vars
    /\ [][(<<"shutdown", "all", "again">> \in event') =>
             /\ shutdown # "idle" /\ shutdown' = shutdown
             /\ RecordsUntouched
             /\ restart_tasks' = restart_tasks /\ monitor' = monitor]_vars

\* C36 witness: shutdown has just completed: stop_all had terminated a
\* child, no task is left, and the completion line is the last thing written.
C36_Witness ==
    /\ shutdown = "done"
    /\ event = {<<"shutdown", "all", "done">>}
    /\ output.console = <<ShutdownComplete>> /\ output.bus = << >>
    /\ stop_tasks = {}
    /\ \E s \in subsystems : intentionally_stopped[s] /\ process[s] = None

\* The step a stream reader of subsystem s takes when it reads end-of-stream.
AtEndOfStream(s) == \E stream \in Streams : event' = {<<"eof", s, stream>>}

\* A step of the Monitor task: the scan of a tick, or its continuation after
\* the wait of a kill.
MonitorStep == <<"scan", "all", "monitor">> \in event' \/ monitor' # monitor

\* The current child of s has exited and nothing of the supervisor has yet
\* reacted: no restart is pending and no spawn for s is in flight.
DeathUnnoticed(s) ==
    /\ process[s] # None
    /\ child[process[s]].st = "exited"
    /\ ~restart_pending[s]
    /\ restart_tasks[s] = << >>
    /\ \A c \in Children : ~(child[c].st = "spawning" /\ child[c].sub = s)

\* C37: a stream reader that reaches end-of-stream returns without changing
\* process, last_heartbeat, restart_pending or intentionally_stopped of any
\* subsystem, without touching a child and without output; and while the death
\* of the current child is unnoticed, process, restart_pending and
\* intentionally_stopped of the subsystem change only in a step of the Monitor.
C37_EofChangesNothing ==
    [][\A s \in subsystems :
         /\ AtEndOfStream(s) =>
              /\ UNCHANGED <<process, last_heartbeat, restart_pending, intentionally_stopped>>
              /\ UNCHANGED <<child, restart_tasks, stop_tasks>>
              /\ output' = NoOutput
         /\ (/\ DeathUnnoticed(s)
             /\ <<process[s], restart_pending[s], intentionally_stopped[s]>>
                  # <<process'[s], restart_pending'[s], intentionally_stopped'[s]>>)
              => MonitorStep]_vars

\* Both readers of an exited child have returned, the child is still the
\* subsystem's process and no restart has been scheduled.
C37_Witness ==
    \E s \in subsystems :
        /\ DeathUnnoticed(s)
        /\ \A stream \in Streams : <<process[s], stream>> \in at_eof

\* C38: only a HEARTBEAT line written by the child the record holds now updates
\* last_heartbeat: no reader of an earlier child of the subsystem refreshes it.
C38_OnlyCurrentHeartbeat ==
    [][\A s \in subsystems :
         (/\ <<"heartbeat", s, "reader">> \in event'
          /\ process[s] # None
          /\ child[process[s]].st = "alive")
           => <<"writer", s, "previous">> \notin event']_vars

\* The subcommands that act on subsystems or arm the confirmation.
OwnCommands == {"stop", "start", "restart", "restart-all"}

\* C39: a stop, start, restart or restart-all that arrives while the
\* restart-all confirmation is pending is consumed as the answer and not
\* executed: no field of a subsystem record changes, no child is signalled or
\* spawned, no stop is left waiting, the one reply is `Restart-all cancelled`
\* and the flag is false afterwards.
C39_PendingConsumesCommand ==
    [][(/\ restart_all_confirmation
        /\ Len(command') >= 3
        /\ command'[3] \in OwnCommands)
          => /\ RecordsUntouched
             /\ restart_tasks' = restart_tasks
             /\ shutdown' = shutdown
             /\ ~restart_all_confirmation'
             /\ event' = {<<"cancelled", "all", "restart-all">>}
             /\ OneReply(output', "INFO")
             /\ ReplyMessage(output'.bus[1]) = <<"Restart-all cancelled">>]_vars

\* `stop drive` has just been consumed as the answer while drive runs and is
\* not marked stopped.
C39_Witness ==
    /\ command = <<"SYSTEM", "CMD", "stop", "drive">>
    /\ event = {<<"cancelled", "all", "restart-all">>}
    /\ ~restart_all_confirmation
    /\ "drive" \in subsystems
    /\ HasLiveProcess(process, child, "drive")
    /\ ~intentionally_stopped["drive"]

====
